---- MODULE Spec2Model ----
(***************************************************************************)
(* A model of the recipe engine's context stack (recipe_modules/context),  *)
(* deferred results (recipe_engine/recipe_api.py) and the subprocess step  *)
(* runner's wait/kill logic (internal/step_runner/subproc.py).             *)
(*                                                                         *)
(* Conventions.  A Python value that may be None is an "option": the empty *)
(* tuple <<>> is None and <<v>> is the value v.  A Python str is a tuple   *)
(* of one-character strings.  A dict is a function on its set of keys.     *)
(***************************************************************************)
EXTENDS Integers, Sequences, FiniteSets, TLC

VARIABLES
  \* ---- ContextApi (recipe_modules/context/api.py) ----
  _cwd, _env_prefixes, _env_suffixes, _env, _infra_step,
  scopes,      \* the live `with api.context(...)` generators, innermost last
  ctx_exc,     \* the exception propagating through the recipe, or "none"
  ctx_last,    \* the last context operation and its reference stacks
  rejects      \* how many api.context calls have raised ValueError so far

ctxVars == <<_cwd, _env_prefixes, _env_suffixes, _env, _infra_step,
             scopes, ctx_exc, ctx_last, rejects>>

VARIABLES
  \* ---- _DEFER_CONTEXT and defer_results (recipe_engine/recipe_api.py) ----
  _ran_step, _aggregated_result,
  aggs,        \* every AggregatedResult created so far; its index is its identity
  excs,        \* every StepFailure object created so far; its index is its identity
  frames,      \* the live defer_results scopes and wrapped calls, innermost last
  exc,         \* the exception propagating through the recipe
  defer_last,  \* the last defer operation and what it observed
  defer_ops    \* how many defer operations the recipe has performed

deferVars == <<_ran_step, _aggregated_result, aggs, excs, frames, exc, defer_last,
               defer_ops>>

VARIABLES
  \* ---- SubprocessStepRunner._wait_proc and _kill (step_runner/subproc.py) ----
  wp_pc,       \* where the task running _wait_proc is
  _MSWINDOWS,  \* sys.platform == 'win32'
  timeout,     \* the step's timeout, or None
  gid,         \* the process group collected by _mk_proc, or None
  returncode,  \* proc.returncode
  ret,         \* the ExecutionResult being built
  kill_site,   \* which call of _kill is running: "none", "timeout" or "cancel"
  signals,     \* the calls _kill made on the process or its group, in order
  waited,      \* seconds spent in the current proc.wait(timeout=30) of _kill
  kill_ret,    \* what the last completed _kill returned
  wp_hist,     \* what has happened: kills started, cancellations, timeout
  outcome      \* how _wait_proc ended: "running", "returned" or "raised"

waitVars == <<wp_pc, _MSWINDOWS, timeout, gid, returncode, ret, kill_site, signals,
              waited, kill_ret, wp_hist, outcome>>

VARIABLES
  \* ---- SubprocessStepRunner.resolve_cmd0 (step_runner/subproc.py) ----
  rc_cmd0,     \* the step's argv[0]
  rc_cwd,      \* the step's cwd
  rc_paths,    \* the entries of the step's PATH, in order
  rc_fs,       \* the file system: what kind of thing is at a path
  resolved,    \* what resolve_cmd0 returned
  rc_pc        \* "start" or "done"

resolveVars == <<rc_cmd0, rc_cwd, rc_paths, rc_fs, resolved, rc_pc>>

VARIABLES
  \* ---- SubprocessStepRunner._mk_proc (step_runner/subproc.py) ----
  os_environ_PATH, \* os.environ['PATH'] of the engine process
  path0,           \* its value before the first _mk_proc
  orig_path,       \* the local orig_path of the running _mk_proc, or None
  mk_pc,           \* "idle" or "Popen"
  spawns           \* the calls of _mk_proc so far

mkVars == <<os_environ_PATH, path0, orig_path, mk_pc, spawns>>

VARIABLES
  \* ---- SubprocessStepRunner.run with piped output (step_runner/subproc.py) ----
  run_pc,      \* where run is: "wait", "reap", "close" or "returned"
  pipes,       \* the handle names that are PIPEs
  script,      \* per pipe, what the child writes to it before it exits
  wrote,       \* per pipe, how much of that it has written
  buf,         \* per pipe, what has been written and not yet read
  child,       \* None while the child runs, then its return code
  worker,      \* per pipe, the state of its _copy_lines greenlet
  sink,        \* per pipe, the lines written to the step's Stream
  closes,      \* per pipe, how _safe_close went and the pool maximum around it, or None
  threadpool_maxsize, \* gevent.get_hub().threadpool.maxsize
  debug_log,   \* the lines _safe_close wrote, per handle
  run_ret      \* what run returned, or None

runVars == <<run_pc, pipes, script, wrote, buf, child, worker, sink, closes,
             threadpool_maxsize, debug_log, run_ret>>

VARIABLES
  \* ---- the test driver: _push_tests and _run (commands/test/run_train.py) ----
  test_filters,     \* the filter patterns of the command line
  is_train,         \* TRUE for `test train`, FALSE for `test run`
  recipes,          \* main_repo.recipes in iteration order
  gen_tests,        \* per recipe, the test cases its gen_tests yields and whether it then raises
  expectation_paths, \* per recipe, the expectation files on disk
  drv_pc,           \* where _run is
  recipe_i,         \* _push_tests: index of the recipe at hand
  test_i,           \* _push_tests: index of the test case at hand
  used_expectations, \* _push_tests: local of the same name
  test_filenames,   \* _push_tests: expect_file -> test name
  unused_expectation_files, \* _push_tests: local of the same name
  all_threads,      \* the RunnerThreads of the pool, or {} before make_pool
  live_threads,     \* the local live_threads of _run
  cov_dir,          \* "unbound" before make_pool returns, then None or Some(dir)
  description_queue,
  outcome_queue,
  runner,           \* per RunnerThread, where it is and the description it holds
  test_result,      \* the Outcome message _run fills in
  drv_exc,          \* the exception leaving _run, or None
  cleaned,          \* what the finally clause of _run did, or None
  pool_coverage,    \* the collect_coverage given to make_pool, or None
  shards_read,      \* the threads whose coverage file _run has read
  main_ret,         \* how main ended, or None
  put_log,           \* everything ever put on description_queue, in order
  put_over_unread,   \* a description was put while an Outcome waited unread
  executed,         \* the descriptions the pool has executed, in order
  carried,          \* everything ever put on outcome_queue, in order
  removed           \* the expectation files os.remove deleted

driverVars == <<test_filters, is_train, recipes, gen_tests, expectation_paths,
                drv_pc, recipe_i, test_i, used_expectations, test_filenames,
                unused_expectation_files, all_threads, live_threads, cov_dir,
                description_queue, outcome_queue, runner, test_result,
                drv_exc, cleaned, pool_coverage, shards_read, main_ret,
                put_log, put_over_unread, executed, carried, removed>>

VARIABLES
  \* ---- Reporter (commands/test/report.py) ----
  _use_emoji,      \* Reporter._use_emoji
  _is_train,       \* Reporter._is_train
  _verbose,        \* Reporter._verbose
  _symbol_max,     \* Reporter._symbol_max
  _symbol_count,   \* Reporter._symbol_count
  _long_err_buf,   \* the headers written to Reporter._long_err_buf
  stdout,          \* what the reporter has printed
  reported,        \* the outcomes short_report has printed the tests of
  coverage_percent, \* outcome_msg.coverage_percent, in tenths of a percent
  rp_exit,         \* the code of the SystemExit the reporter raised, or None
  rp_final         \* the arguments final_report was called with, or None

reportVars == <<_use_emoji, _is_train, _verbose, _symbol_max, _symbol_count,
                _long_err_buf, stdout, reported, coverage_percent, rp_exit,
                rp_final>>

VARIABLES
  \* ---- PathsClient.find_longest_prefix (recipe_engine/recipe_api.py) ----
  path_strings,  \* the known resource paths, sorted
  fp_target,     \* the path looked up
  fp_result,     \* what find_longest_prefix returned
  fp_pc          \* "start" or "done"

prefixVars == <<path_strings, fp_target, fp_result, fp_pc>>

VARIABLES
  \* ---- exponential_retry (recipe_engine/util.py) ----
  er_retries,    \* the retries argument of the decorator (0 stands for None too)
  er_delay,      \* the delay argument, in seconds (0 stands for None too)
  er_condition,  \* the exceptions condition(e) is true for
  er_i,          \* the loop variable i of wrapper
  retry_delay,   \* the local retry_delay of wrapper, in seconds
  er_pc,         \* "idle", "call" or "done"
  er_attempts,   \* what each call of f did, in order
  er_sleeps,     \* the arguments of time.sleep, in order
  er_outcome     \* what wrapper returned or raised

retryVars == <<er_retries, er_delay, er_condition, er_i, retry_delay, er_pc,
               er_attempts, er_sleeps, er_outcome>>

vars == <<ctxVars, deferVars, waitVars, resolveVars, mkVars, runVars,
         driverVars, reportVars, prefixVars, retryVars>>

None == <<>>
Some(v) == <<v>>

Range(s) == {s[i] : i \in DOMAIN s}

ButLast(s) == SubSeq(s, 1, Len(s) - 1)

Top(s) == s[Len(s)]

\* dict.get(k, default)
Get(d, k, default) == IF k \in DOMAIN d THEN d[k] ELSE default

EmptyDict == [k \in {} |-> None]

(***************************************************************************)
(* Bounds                                                                  *)
(***************************************************************************)
MaxScopes == 2        \* nesting depth of api.context scopes
MaxRejects == 1       \* api.context calls that raise ValueError in one run

(***************************************************************************)
(* Context stack                                                           *)
(***************************************************************************)

\* ('%(foo)s' + v) % collections.defaultdict(str) raises for v[i..]:
\* after the leading %(foo)s the formatter is in mapping mode, where a
\* conversion without a (key) has no argument left, an unterminated key or a
\* trailing % is an incomplete format, and only %% and %(key)s / %(key)r
\* succeed on the '' that the defaultdict supplies.
RECURSIVE FormatRaises(_, _)
FormatRaises(v, i) ==
  IF i > Len(v) THEN FALSE
  ELSE IF v[i] # "%" THEN FormatRaises(v, i + 1)
  ELSE IF i + 1 > Len(v) THEN TRUE
  ELSE IF v[i + 1] = "%" THEN FormatRaises(v, i + 2)
  ELSE IF v[i + 1] # "(" THEN TRUE
  ELSE LET closers == {j \in (i + 2)..Len(v) : v[j] = ")"}
       IN  IF closers = {} THEN TRUE
           ELSE LET j == CHOOSE c \in closers : \A d \in closers : c <= d
                IN  IF j + 1 > Len(v) THEN TRUE
                    ELSE IF v[j + 1] \in {"s", "r", "%"}
                         THEN FormatRaises(v, j + 2)
                         ELSE TRUE

\* The five stacks as one record, keyed by stack name.
Stacks ==
  [cwd |-> _cwd, infra_step |-> _infra_step, env_prefixes |-> _env_prefixes,
   env_suffixes |-> _env_suffixes, env |-> _env]

\* _push(st, val): st.append(val); to_pop.append(st)
_push(r, st, val) ==
  [r EXCEPT !.stacks = [@ EXCEPT ![st] = Append(@, val)],
            !.to_pop = Append(@, st)]

PrefixOverlay_Append(top, arg) ==
  LET set == {k \in DOMAIN arg : arg[k] # <<>>}
  IN  [k \in DOMAIN top \cup set |->
         IF k \in set THEN Get(top, k, <<>>) \o arg[k] ELSE top[k]]

\* new = dict(top); for k, v: if not v: continue; new[k] = tuple(v) + new.get(k, ())
PrefixOverlay(top, arg) ==
  LET set == {k \in DOMAIN arg : arg[k] # <<>>}
  IN  [k \in DOMAIN top \cup set |->
         IF k \in set THEN arg[k] \o Get(top, k, <<>>) ELSE top[k]]

\* new = dict(top); for k, v: if not v: continue; new[k] = new.get(k, ()) + tuple(v)
SuffixOverlay(top, arg) ==
  LET set == {k \in DOMAIN arg : arg[k] # <<>>}
  IN  [k \in DOMAIN top \cup set |->
         IF k \in set THEN Get(top, k, <<>>) \o arg[k] ELSE top[k]]

\* new = dict(top); for k, v: new[k] = v  (v is None or str(v))
EnvOverlay(top, arg) ==
  [k \in DOMAIN top \cup DOMAIN arg |-> IF k \in DOMAIN arg THEN arg[k] ELSE top[k]]

EnvRaises_Never(arg) == FALSE

\* some string value of the env argument fails the %-format check
EnvRaises(arg) ==
  \E k \in DOMAIN arg : arg[k] # None /\ FormatRaises(arg[k][1], 1)

ContextEntry_PushEmpty(st, cwd, env_prefixes, env_suffixes, env, infra_steps) ==
  LET r0 == [stacks |-> st, to_pop |-> <<>>, raised |-> FALSE]
      r1 == IF cwd # None THEN _push(r0, "cwd", cwd) ELSE r0
      r2 == IF infra_steps # None
            THEN _push(r1, "infra_step", infra_steps[1]) ELSE r1
      r3 == IF env_prefixes # None
            THEN _push(r2, "env_prefixes",
                       PrefixOverlay(Top(r2.stacks.env_prefixes), env_prefixes[1]))
            ELSE r2
      r4 == IF env_suffixes # None /\ DOMAIN env_suffixes[1] # {}
            THEN _push(r3, "env_suffixes",
                       SuffixOverlay(Top(r3.stacks.env_suffixes), env_suffixes[1]))
            ELSE r3
  IN  IF env # None /\ DOMAIN env[1] # {}
      THEN IF EnvRaises(env[1])
           THEN [r4 EXCEPT !.raised = TRUE]
           ELSE _push(r4, "env", EnvOverlay(Top(r4.stacks.env), env[1]))
      ELSE r4

\* ContextApi.__call__ up to the yield: the stacks and to_pop it has built
\* when it either reaches the yield or raises ValueError.
ContextEntry(st, cwd, env_prefixes, env_suffixes, env, infra_steps) ==
  LET r0 == [stacks |-> st, to_pop |-> <<>>, raised |-> FALSE]
      r1 == IF cwd # None THEN _push(r0, "cwd", cwd) ELSE r0
      r2 == IF infra_steps # None
            THEN _push(r1, "infra_step", infra_steps[1]) ELSE r1
      r3 == IF env_prefixes # None /\ DOMAIN env_prefixes[1] # {}
            THEN _push(r2, "env_prefixes",
                       PrefixOverlay(Top(r2.stacks.env_prefixes), env_prefixes[1]))
            ELSE r2
      r4 == IF env_suffixes # None /\ DOMAIN env_suffixes[1] # {}
            THEN _push(r3, "env_suffixes",
                       SuffixOverlay(Top(r3.stacks.env_suffixes), env_suffixes[1]))
            ELSE r3
  IN  IF env # None /\ DOMAIN env[1] # {}
      THEN IF EnvRaises(env[1])
           THEN [r4 EXCEPT !.raised = TRUE]
           ELSE _push(r4, "env", EnvOverlay(Top(r4.stacks.env), env[1]))
      ELSE r4

\* finally: for p in to_pop: p.pop()
RECURSIVE PopAll(_, _)
PopAll(st, to_pop) ==
  IF to_pop = <<>> THEN st
  ELSE PopAll([st EXCEPT ![Head(to_pop)] = ButLast(@)], Tail(to_pop))

SetStacks(st) ==
  /\ _cwd' = st.cwd
  /\ _infra_step' = st.infra_step
  /\ _env_prefixes' = st.env_prefixes
  /\ _env_suffixes' = st.env_suffixes
  /\ _env' = st.env

\* ---- the arguments a recipe passes ----
S_bar == <<"b", "a", "r">>
S_empty == <<>>
S_pct_s == <<"%", "s">>
S_pct_format == <<"%", "f", "o", "r", "m", "a", "t">>
S_pct_PATH == <<"x", ":", "%", "(", "P", ")", "s">>
S_pct_pct == <<"%", "%", "f">>

Dict1(k, v) == [x \in {k} |-> v]

\* The argument tuples a recipe passes to api.context: nothing, empty dicts,
\* each field alone, several together, and an env value that fails the
\* %-format check, alone and next to each other field.
Args(cwd, env_prefixes, env_suffixes, env, infra_steps) ==
  [cwd |-> cwd, env_prefixes |-> env_prefixes, env_suffixes |-> env_suffixes,
   env |-> env, infra_steps |-> infra_steps]

A_cwd == Some("subdir")
A_prefixes == Some(Dict1("FOO", <<"pants">>))
A_suffixes == Some(Dict1("FOO", <<"shirt">>))
A_env == Some(Dict1("FOO", Some(S_bar)))
A_bad == Some(Dict1("BAD", Some(S_pct_s)))

GoodArgs ==
  { Args(None, None, None, None, None),
    Args(None, Some(EmptyDict), Some(EmptyDict), Some(EmptyDict), None),
    Args(A_cwd, None, None, None, None),
    Args(None, A_prefixes, None, None, None),
    Args(None, None, A_suffixes, None, None),
    Args(None, None, None, A_env, None),
    Args(None, None, None, Some(Dict1("FOO", None)), None),
    Args(None, A_prefixes, None, Some(Dict1("FOO", Some(S_empty))), None),
    Args(None, None, None, Some(Dict1("FOO", Some(S_pct_PATH))), None),
    Args(None, None, None, Some(Dict1("FINE", Some(S_pct_pct))), None),
    Args(None, None, None, None, Some(TRUE)),
    Args(None, Some(Dict1("FOO", <<>>)), None, None, None),
    Args(A_cwd, A_prefixes, A_suffixes, A_env, Some(FALSE)) }

BadArgs ==
  { Args(None, None, None, A_bad, None),
    Args(None, None, None, Some(Dict1("BAD", Some(S_pct_format))), None),
    Args(A_cwd, None, None, A_bad, None),
    Args(None, A_prefixes, None, A_bad, None),
    Args(None, None, A_suffixes, A_bad, None),
    Args(None, None, None, A_bad, Some(TRUE)),
    Args(A_cwd, A_prefixes, A_suffixes, A_bad, Some(TRUE)) }

ContextArgs == GoodArgs \cup BadArgs

\* The scopes of examples/full.py that overlay prefixes and suffixes, enter
\* with nothing to push, or pass env values with a % in them.
ScopeArgs ==
  { Args(None, None, None, None, None),
    Args(None, Some(EmptyDict), Some(EmptyDict), Some(EmptyDict), None),
    Args(None, None, Some(EmptyDict), None, None),
    Args(None, A_prefixes, None, None, None),
    Args(None, Some([k \in {"FOO", "BAR"} |->
                      IF k = "BAR" THEN <<"hat">> ELSE <<>>]), None, None, None),
    Args(None, Some(Dict1("FOO", <<"shirt">>)), A_suffixes, None, None),
    Args(None, A_prefixes, Some(Dict1("FOO", <<"pants", "hat">>)), None, None),
    Args(None, None, None, Some(Dict1("FOO", Some(S_pct_PATH))), None),
    Args(None, None, None, Some(Dict1("FINE", Some(S_pct_pct))), None),
    Args(None, None, None, A_bad, None),
    Args(None, None, None, Some(Dict1("BAD", Some(S_pct_format))), None) }

CtxInit ==
  /\ _cwd = <<None>>
  /\ _env_prefixes = <<EmptyDict>>
  /\ _env_suffixes = <<EmptyDict>>
  /\ _env = <<EmptyDict>>
  /\ _infra_step = <<FALSE>>
  /\ scopes = <<>>
  /\ ctx_exc = "none"
  /\ ctx_last = [op |-> "init", ref |-> Stacks]
  /\ rejects = 0

\* `with api.context(...)` reaches its yield: the body starts.
ContextEnter(cwd, env_prefixes, env_suffixes, env, infra_steps) ==
  LET r == ContextEntry(Stacks, cwd, env_prefixes, env_suffixes, env, infra_steps)
  IN  /\ ctx_exc = "none"
      /\ Len(scopes) < MaxScopes
      /\ ~r.raised
      /\ SetStacks(r.stacks)
      /\ scopes' = Append(scopes, [to_pop |-> r.to_pop, saved |-> Stacks])
      /\ ctx_last' = [op |-> "enter", ref |-> r.stacks]
      /\ UNCHANGED <<ctx_exc, rejects>>

\* `with api.context(...)` raises ValueError before its try/finally.
ContextReject(cwd, env_prefixes, env_suffixes, env, infra_steps) ==
  LET r == ContextEntry(Stacks, cwd, env_prefixes, env_suffixes, env, infra_steps)
  IN  /\ ctx_exc = "none"
      /\ r.raised
      /\ rejects < MaxRejects
      /\ rejects' = rejects + 1
      /\ SetStacks(r.stacks)
      /\ ctx_exc' = "ValueError"
      /\ ctx_last' = [op |-> "reject", ref |-> Stacks]
      /\ UNCHANGED scopes

\* The body of the innermost scope raises.
BodyRaise ==
  /\ ctx_exc = "none"
  /\ scopes # <<>>
  /\ ctx_exc' = "Exception"
  /\ ctx_last' = [op |-> "raise", ref |-> Stacks]
  /\ UNCHANGED <<_cwd, _env_prefixes, _env_suffixes, _env, _infra_step, scopes,
                 rejects>>

\* A try/except in the recipe catches the propagating exception.
BodyCatch ==
  /\ ctx_exc # "none"
  /\ ctx_exc' = "none"
  /\ ctx_last' = [op |-> "catch", ref |-> Stacks]
  /\ UNCHANGED <<_cwd, _env_prefixes, _env_suffixes, _env, _infra_step, scopes,
                 rejects>>

\* The innermost scope is left, by the end of its body or by the exception
\* propagating through it: the finally clause pops.
ContextExit ==
  /\ scopes # <<>>
  /\ LET sc == Top(scopes)
         st == PopAll(Stacks, sc.to_pop)
     IN  /\ SetStacks(st)
         /\ ctx_last' = [op |-> "exit", ref |-> sc.saved]
  /\ scopes' = ButLast(scopes)
  /\ UNCHANGED <<ctx_exc, rejects>>

(***************************************************************************)
(* Deferred results                                                        *)
(***************************************************************************)
MaxDeferOps == 10      \* calls, returns, raises and scope entries/exits in one run

NoExc == [kind |-> "none", id |-> 0]

\* AggregatedResult.__init__
AggregatedResult ==
  [successes |-> <<>>, failures |-> <<>>, contains_infra_failure |-> FALSE,
   retcode |-> None]

\* AggregatedResult.all_results
all_results(a) ==
  [i \in 1..(Len(a.successes) + Len(a.failures)) |->
     IF i <= Len(a.successes) THEN <<TRUE, a.successes[i]>>
     ELSE <<FALSE, a.failures[i - Len(a.successes)]>>]

\* AggregatedStepFailure.reason_message: "N out of M aggregated steps
\* failed: " and the failures' reasons in list order.
reason_message(a) ==
  [failed |-> Len(a.failures), total |-> Len(all_results(a)),
   listed |-> a.failures]

\* _DEFER_CONTEXT_OBJ.mark_ran_step
mark_ran_step(rs) == [rs EXCEPT ![Len(rs)] = TRUE]

\* StepFailure.__init__ without the mark: the object built from
\* name_or_reason and result.  exc_result is taken from a result that has
\* one (a StepData), and stays None for a manual failure and for the
\* AggregatedResult that AggregatedStepFailure passes in.
StepFailure(exc_result) ==
  [cls |-> "StepFailure", result |-> 0, exc_result |-> exc_result,
   reason |-> [failed |-> 0, total |-> 0, listed |-> <<>>]]

\* AggregatedStepFailure.__init__: result is the AggregatedResult (by index)
AggregatedStepFailure(a) ==
  [cls |-> "AggregatedStepFailure", result |-> a, exc_result |-> None,
   reason |-> reason_message(aggs[a])]

\* StepFailure.had_timeout: None, True or False
had_timeout(e) ==
  IF e.exc_result = None THEN "None"
  ELSE IF e.exc_result[1].had_timeout THEN "True" ELSE "False"

\* StepFailure.retcode
retcode(e) == IF e.exc_result = None THEN None ELSE Some(e.exc_result[1].retcode)

\* the ExecutionResult of a step that failed: retcode 1, or killed on timeout
FailedSteps ==
  {None, Some([had_timeout |-> FALSE, retcode |-> 1]),
   Some([had_timeout |-> TRUE, retcode |-> -9])}

DeferSnap == <<_ran_step, _aggregated_result, aggs>>

_enter_AggregateOnly(agg) ==
  /\ _aggregated_result' = Append(_aggregated_result, agg)
  /\ UNCHANGED _ran_step

\* _DEFER_CONTEXT_OBJ._enter
_enter(agg) ==
  /\ _ran_step' = Append(_ran_step, FALSE)
  /\ _aggregated_result' = Append(_aggregated_result, agg)

Wrappers == {"infer_composite_step", "composite_step"}

\* every live call has now executed a step or raised a StepFailure
Acted(fs) == [i \in DOMAIN fs |-> [fs[i] EXCEPT !.acted = TRUE]]

Frame(kind, agg, pushed) ==
  [kind |-> kind, agg |-> agg, pushed |-> pushed, acted |-> FALSE]

DeferInit ==
  /\ _ran_step = <<FALSE>>
  /\ _aggregated_result = <<None>>
  /\ aggs = <<>>
  /\ excs = <<>>
  /\ frames = <<>>
  /\ exc = NoExc
  /\ defer_last = [op |-> "init"]
  /\ defer_ops = 0

\* one more operation of the recipe, within the budget of a run
Op ==
  /\ defer_ops < MaxDeferOps
  /\ defer_ops' = defer_ops + 1

\* infer_composite_step._inner / composite_step._inner up to func(*a, **kw)
Call(kind) ==
  /\ Op
  /\ exc = NoExc
  /\ LET rs == IF kind = "composite_step" THEN mark_ran_step(_ran_step)
               ELSE _ran_step
         agg == Top(_aggregated_result)
         fs == IF kind = "composite_step" THEN Acted(frames) ELSE frames
     IN  IF agg = None
         THEN /\ _ran_step' = rs
              /\ frames' = Append(fs, Frame(kind, None, FALSE))
              /\ UNCHANGED _aggregated_result
         ELSE /\ _ran_step' = Append(rs, FALSE)
              /\ _aggregated_result' = Append(_aggregated_result, None)
              /\ frames' = Append(fs, Frame(kind, agg, TRUE))
  /\ defer_last' = [op |-> "other"]
  /\ UNCHANGED <<aggs, excs, exc>>

CallInfer == Call("infer_composite_step")

CallComposite == Call("composite_step")

\* the rule that tells a step-like call from a pure one when func returned
IsStepLike(fr, ran_step) ==
  fr.kind = "composite_step" \/ ran_step

\* func returned ret: the wrapper returns ret or agg.add_success(ret), and
\* begin_normal's finally pops.
Return ==
  /\ Op
  /\ exc = NoExc
  /\ frames # <<>>
  /\ Top(frames).kind \in Wrappers
  /\ LET fr == Top(frames)
         deferred == fr.pushed /\ IsStepLike(fr, Top(_ran_step))
     IN  /\ IF deferred
            THEN aggs' = [aggs EXCEPT ![fr.agg[1]].successes = Append(@, "ret")]
            ELSE UNCHANGED aggs
         /\ IF fr.pushed
            THEN /\ _ran_step' = ButLast(_ran_step)
                 /\ _aggregated_result' = ButLast(_aggregated_result)
            ELSE UNCHANGED <<_ran_step, _aggregated_result>>
         /\ defer_last' = [op |-> "return", frame |-> fr, deferred |-> deferred]
  /\ frames' = ButLast(frames)
  /\ UNCHANGED <<excs, exc>>

\* raise StepFailure(...): a step that failed, or a manual failure
RaiseStepFailure(exc_result) ==
  /\ Op
  /\ exc = NoExc
  /\ _ran_step' = mark_ran_step(_ran_step)
  /\ excs' = Append(excs, StepFailure(exc_result))
  /\ exc' = [kind |-> "StepFailure", id |-> Len(excs) + 1]
  /\ frames' = Acted(frames)
  /\ defer_last' = [op |-> "other"]
  /\ UNCHANGED <<_aggregated_result, aggs>>

\* an exception that is not a StepFailure
RaiseOther ==
  /\ Op
  /\ exc = NoExc
  /\ exc' = [kind |-> "Exception", id |-> 0]
  /\ defer_last' = [op |-> "other"]
  /\ UNCHANGED <<_ran_step, _aggregated_result, aggs, excs, frames>>

\* the failures captured so far, each held by the DeferredResult that
\* add_failure returned
Captured == UNION {Range(aggs[a].failures) : a \in DOMAIN aggs}

\* DeferredResult.get_result on a failure: raise self.get_error()
GetResult(f) ==
  /\ Op
  /\ exc = NoExc
  /\ f \in Captured
  /\ exc' = [kind |-> "StepFailure", id |-> f]
  /\ frames' = Acted(frames)
  /\ defer_last' = [op |-> "other"]
  /\ UNCHANGED <<_ran_step, _aggregated_result, aggs, excs>>

\* a try/except in recipe code catches the propagating exception
Catch ==
  /\ Op
  /\ exc # NoExc
  /\ exc' = NoExc
  /\ defer_last' = [op |-> "other"]
  /\ UNCHANGED <<_ran_step, _aggregated_result, aggs, excs, frames>>

Catches_CompositeOnly(fr, e) ==
  fr.kind = "composite_step" /\ fr.pushed /\ e.kind = "StepFailure"

\* `except StepFailure as ex` of a wrapper that called begin_normal
Catches(fr, e) == fr.kind \in Wrappers /\ fr.pushed /\ e.kind = "StepFailure"

\* The exception leaves the innermost frame: a wrapper inside a defer scope
\* turns a StepFailure into agg.add_failure(ex), every other frame lets it
\* pass; begin_normal's and begin_aggregate's finally pop.
Unwind ==
  /\ Op
  /\ exc # NoExc
  /\ frames # <<>>
  /\ LET fr == Top(frames)
     IN  /\ IF Catches(fr, exc)
            THEN /\ aggs' = [aggs EXCEPT ![fr.agg[1]].failures = Append(@, exc.id)]
                 /\ exc' = NoExc
            ELSE UNCHANGED <<aggs, exc>>
         /\ IF fr.pushed
            THEN /\ _ran_step' = ButLast(_ran_step)
                 /\ _aggregated_result' = ButLast(_aggregated_result)
            ELSE UNCHANGED <<_ran_step, _aggregated_result>>
         /\ defer_last' = [op |-> "unwind", frame |-> fr, exc |-> exc,
                           deferred |-> Catches(fr, exc)]
  /\ frames' = ButLast(frames)
  /\ UNCHANGED excs

DeferAllowed_Always(agg) == TRUE

\* assert _DEFER_CONTEXT.aggregated_result is None
DeferAllowed(agg) == agg = None

\* defer_results() up to its yield
EnterDefer ==
  /\ Op
  /\ exc = NoExc
  /\ IF DeferAllowed(Top(_aggregated_result))
     THEN /\ aggs' = Append(aggs, AggregatedResult)
          /\ _enter(Some(Len(aggs) + 1))
          /\ frames' = Append(frames, Frame("defer_results", Some(Len(aggs) + 1), TRUE))
          /\ UNCHANGED exc
     ELSE /\ exc' = [kind |-> "AssertionError", id |-> 0]
          /\ UNCHANGED <<_ran_step, _aggregated_result, aggs, frames>>
  /\ defer_last' = [op |-> "defer_results", active |-> Top(_aggregated_result) # None,
                    before |-> DeferSnap]
  /\ UNCHANGED excs

RaisesAggregate_MoreThanOne(a) == Len(a.failures) > 1

\* `if agg.failures:` after the with block of defer_results
RaisesAggregate(a) == a.failures # <<>>

\* The body of the innermost defer_results scope ends: begin_aggregate pops,
\* then AggregatedStepFailure(agg) is raised if failures were captured.
ExitDefer ==
  /\ Op
  /\ exc = NoExc
  /\ frames # <<>>
  /\ Top(frames).kind = "defer_results"
  /\ LET a == Top(frames).agg[1]
         rs == ButLast(_ran_step)
     IN  /\ _aggregated_result' = ButLast(_aggregated_result)
         /\ IF RaisesAggregate(aggs[a])
            THEN /\ _ran_step' = mark_ran_step(rs)
                 /\ excs' = Append(excs, AggregatedStepFailure(a))
                 /\ exc' = [kind |-> "StepFailure", id |-> Len(excs) + 1]
                 /\ frames' = Acted(ButLast(frames))
            ELSE /\ _ran_step' = rs
                 /\ frames' = ButLast(frames)
                 /\ UNCHANGED <<excs, exc>>
         /\ defer_last' = [op |-> "exit_defer", agg |-> a]
  /\ UNCHANGED aggs

(***************************************************************************)
(* Waiting for and killing the subprocess                                  *)
(***************************************************************************)
SIGTERM == 15
SIGKILL == 9
CTRL_BREAK_EVENT == 1
KillTimeout == 30     \* proc.wait(timeout=30) in _kill, seconds

\* ExecutionResult()
ExecutionResult == [retcode |-> None, had_timeout |-> FALSE, was_cancelled |-> FALSE]

\* the suspension points: proc.wait in _wait_proc and the two in _kill
Suspended == wp_pc \in {"wait", "kill_wait30", "kill_wait"}

\* one call that _kill made on the process or its group, with the
\* proc.returncode the task had at that moment
KillCall(fn, sig) == [fn |-> fn, sig |-> sig, seen |-> returncode]

\* _mk_proc collects gid on POSIX only, and not when the child has finished
\* before os.getpgid
WaitInit ==
  /\ wp_pc = "wait"
  /\ _MSWINDOWS \in BOOLEAN
  /\ timeout \in {None, Some(10)}
  /\ gid \in (IF _MSWINDOWS THEN {None} ELSE {None, Some(1)})
  /\ returncode = None
  /\ ret = ExecutionResult
  /\ kill_site = "none"
  /\ signals = <<>>
  /\ waited = 0
  /\ kill_ret = None
  /\ wp_hist = [kills |-> 0, cancels |-> 0, timed_out |-> FALSE]
  /\ outcome = "running"

\* The return codes the child can exit with: its own, or the negated number
\* of a signal its group was sent.
ExitCodes ==
  {0, 1} \cup {-s.sig : s \in {t \in Range(signals) : t.fn = "killpg"}}

\* The child exits and the hub records its return code; the task sees it
\* when it next runs.  A child whose group could not be collected on POSIX
\* has finished on its own already.
ProcExit(rc) ==
  /\ Suspended
  /\ returncode = None
  /\ rc \in ExitCodes
  /\ (~_MSWINDOWS /\ gid = None) => rc \in {0, 1}
  /\ returncode' = Some(rc)
  /\ UNCHANGED <<wp_pc, _MSWINDOWS, timeout, gid, ret, kill_site, signals, waited,
                 kill_ret, wp_hist, outcome>>

\* _kill(proc, gid) is called from `site`.  POSIX: os.killpg(gid,
\* signal.SIGTERM), where gid None raises TypeError, which no handler in
\* _kill or _wait_proc catches.  Windows: proc.send_signal(CTRL_BREAK_EVENT).
\* Then proc.wait(timeout=30) starts.
KillStart(site) ==
  /\ kill_site' = site
  /\ waited' = 0
  /\ IF _MSWINDOWS
     THEN /\ wp_pc' = "kill_wait30"
          /\ signals' = Append(signals, KillCall("send_signal", CTRL_BREAK_EVENT))
          /\ UNCHANGED outcome
     ELSE IF gid = None
     THEN /\ wp_pc' = "done"
          /\ outcome' = "raised"
          /\ UNCHANGED signals
     ELSE /\ wp_pc' = "kill_wait30"
          /\ signals' = Append(signals, KillCall("killpg", SIGTERM))
          /\ UNCHANGED outcome

\* proc.wait(timeout) returns with the process gone: retcode=proc.poll()
WaitExited ==
  /\ wp_pc = "wait"
  /\ returncode # None
  /\ ret' = [ret EXCEPT !.retcode = returncode]
  /\ wp_pc' = "done"
  /\ outcome' = "returned"
  /\ UNCHANGED <<_MSWINDOWS, timeout, gid, returncode, kill_site, signals, waited,
                 kill_ret, wp_hist>>

\* proc.wait(timeout) returns at the timeout: proc.poll() is None, so the
\* process group is killed.  (A child that had finished before its group
\* could be collected is reported by the hub before any timeout.)
WaitTimedOut ==
  /\ wp_pc = "wait"
  /\ timeout # None
  /\ _MSWINDOWS \/ gid # None
  /\ returncode = None
  /\ ret' = [ret EXCEPT !.retcode = returncode]
  /\ KillStart("timeout")
  /\ wp_hist' = [wp_hist EXCEPT !.kills = @ + 1, !.timed_out = TRUE]
  /\ UNCHANGED <<_MSWINDOWS, timeout, gid, returncode, kill_ret>>

\* a second passes while _kill is in proc.wait(timeout=30) and the child
\* is still running
KillWaitTick ==
  /\ wp_pc = "kill_wait30"
  /\ returncode = None
  /\ waited < KillTimeout
  /\ waited' = waited + 1
  /\ UNCHANGED <<wp_pc, _MSWINDOWS, timeout, gid, returncode, ret, kill_site,
                 signals, kill_ret, wp_hist, outcome>>

AfterKill_FlagOnly(r, site, rc) ==
  IF site = "timeout" THEN [r EXCEPT !.had_timeout = TRUE]
  ELSE [r EXCEPT !.was_cancelled = TRUE]

\* what _wait_proc makes of the value _kill returned, per call site
AfterKill(r, site, rc) ==
  IF site = "timeout" THEN [r EXCEPT !.retcode = rc, !.had_timeout = TRUE]
  ELSE [r EXCEPT !.retcode = rc, !.was_cancelled = TRUE]

\* _kill returns rc, and _wait_proc returns the evolved ExecutionResult
KillReturn(rc) ==
  /\ kill_ret' = rc
  /\ ret' = AfterKill(ret, kill_site, rc)
  /\ wp_pc' = "done"
  /\ outcome' = "returned"

ReturnsAfterWait30_Never == FALSE

\* the Windows _kill returns proc.returncode after the 30 s wait when the
\* child has exited
ReturnsAfterWait30 == _MSWINDOWS /\ returncode # None

\* _kill: proc.wait(timeout=30) returns, because the process is gone or the
\* 30 s are over.  POSIX: os.killpg(gid, signal.SIGKILL); proc.wait().
\* Windows: return proc.returncode if there is one, else proc.terminate();
\* proc.wait().
KillWait30Done ==
  /\ wp_pc = "kill_wait30"
  /\ returncode # None \/ waited = KillTimeout
  /\ IF ReturnsAfterWait30
     THEN /\ KillReturn(returncode)
          /\ UNCHANGED signals
     ELSE /\ signals' = Append(signals, IF _MSWINDOWS THEN KillCall("terminate", 0)
                                        ELSE KillCall("killpg", SIGKILL))
          /\ wp_pc' = "kill_wait"
          /\ UNCHANGED <<ret, kill_ret, outcome>>
  /\ UNCHANGED <<_MSWINDOWS, timeout, gid, returncode, kill_site, waited, wp_hist>>

FinalWaitOver_AtOnce == TRUE

\* proc.wait() without a timeout returns once the child has exited
FinalWaitOver == returncode # None

\* _kill: the final proc.wait() returns proc.returncode
KillDone ==
  /\ wp_pc = "kill_wait"
  /\ FinalWaitOver
  /\ KillReturn(returncode)
  /\ UNCHANGED <<_MSWINDOWS, timeout, gid, returncode, kill_site, signals, waited,
                 wp_hist>>

\* the try block of _wait_proc covers proc.wait and the timeout's _kill; the
\* _kill of the except handler is outside it
InTry(site) == site \in {"none", "timeout"}

\* gevent.GreenletExit is raised in the task at its suspension point.
Cancel ==
  /\ Suspended
  /\ IF InTry(kill_site)
     THEN /\ KillStart("cancel")
          /\ wp_hist' = [wp_hist EXCEPT !.kills = @ + 1, !.cancels = @ + 1]
     ELSE /\ wp_pc' = "done"
          /\ outcome' = "raised"
          /\ wp_hist' = [wp_hist EXCEPT !.cancels = @ + 1]
          /\ UNCHANGED <<kill_site, signals, waited>>
  /\ UNCHANGED <<_MSWINDOWS, timeout, gid, returncode, ret, kill_ret>>

(***************************************************************************)
(* Resolving argv[0] (SubprocessStepRunner.resolve_cmd0)                   *)
(*                                                                         *)
(* A path is a string, modelled as a sequence of tokens: the separators    *)
(* "/" and "\\", the extension separator "." and name fragments.           *)
(***************************************************************************)
\* a separator character of the platform's os.path: sep, and altsep on
\* Windows
IsSep(win, c) == c = "/" \/ (win /\ c = "\\")

\* os.path.sep
sep(win) == IF win THEN "\\" ELSE "/"

\* os.path.isabs (no drive letters)
isabs(win, p) == p # <<>> /\ IsSep(win, p[1])

\* os.path.join(a, b)
join(win, a, b) ==
  IF isabs(win, b) THEN b
  ELSE IF a = <<>> THEN b
  ELSE IF IsSep(win, a[Len(a)]) THEN a \o b
  ELSE a \o <<sep(win)>> \o b

\* the largest index of s at which Test holds, 0 when there is none
LastIndex(s, Test(_)) ==
  LET hits == {i \in DOMAIN s : Test(s[i])}
  IN  IF hits = {} THEN 0 ELSE CHOOSE i \in hits : \A j \in hits : j <= i

\* os.path.splitext(p)[1]: from the last dot of the last component, unless
\* that component has only dots before it
splitext1(win, p) ==
  LET IsSepHere(c) == IsSep(win, c)
      IsDot(c) == c = "."
      sepIndex == LastIndex(p, IsSepHere)
      dotIndex == LastIndex(p, IsDot)
  IN  IF dotIndex > sepIndex
         /\ \E j \in (sepIndex + 1)..(dotIndex - 1) : p[j] # "."
      THEN SubSeq(p, dotIndex, Len(p))
      ELSE <<>>

_PATH_EXTS_BatFirst(win) ==
  IF win THEN << <<".", "bat">>, <<".", "exe">> >> ELSE << <<>> >>

\* _PATH_EXTS
_PATH_EXTS(win) ==
  IF win THEN << <<".", "exe">>, <<".", "bat">> >> ELSE << <<>> >>

\* os.path.isfile and os.access(path, os.X_OK) on the file system f: a
\* directory is searchable, so access grants X_OK on it
isfile(f, p) == Get(f, p, "none") \in {"file", "xfile"}

access_X_OK(f, p) == Get(f, p, "none") \in {"xfile", "dir"}

\* SubprocessStepRunner._is_executable_file
_is_executable_file(f, p) == isfile(f, p) /\ access_X_OK(f, p)

\* the for loop of _resolve_base_path from the i-th extension on
RECURSIVE TryExts(_, _, _, _)
TryExts(win, f, base_path, i) ==
  IF i > Len(_PATH_EXTS(win)) THEN None
  ELSE LET candidate == base_path \o _PATH_EXTS(win)[i]
       IN  IF _is_executable_file(f, candidate) THEN Some(candidate)
           ELSE TryExts(win, f, base_path, i + 1)

\* SubprocessStepRunner._resolve_base_path
_resolve_base_path(win, f, base_path) ==
  IF splitext1(win, base_path) # <<>>
  THEN IF ~_is_executable_file(f, base_path) THEN None ELSE Some(base_path)
  ELSE TryExts(win, f, base_path, 1)

\* the for loop of resolve_cmd0 from the i-th PATH entry on
RECURSIVE TryPaths(_, _, _, _, _)
TryPaths(win, f, c0, ps, i) ==
  IF i > Len(ps) THEN None
  ELSE LET candidate == _resolve_base_path(win, f, join(win, ps[i], c0))
       IN  IF candidate # None THEN candidate
           ELSE TryPaths(win, f, c0, ps, i + 1)

\* SubprocessStepRunner.resolve_cmd0
resolve_cmd0(win, f, c0, wd, ps) ==
  IF isabs(win, c0) THEN _resolve_base_path(win, f, c0)
  ELSE IF sep(win) \in Range(c0)
  THEN _resolve_base_path(win, f, join(win, wd, c0))
  ELSE TryPaths(win, f, c0, ps, 1)

\* ---- the inputs ----
P_tool == <<"tool">>
P_tool_sh == <<"tool", ".", "sh">>
P_bin_tool == <<"bin", "/", "tool">>
P_bin_tool_nt == <<"bin", "\\", "tool">>
P_abs_tool == <<"/", "opt", "/", "tool">>
P_abs_tool_nt == <<"\\", "opt", "\\", "tool", ".", "exe">>
P_dot_rc == <<"d", ".", "d", "/", ".", "rc">>

Cmd0s == {P_tool, P_tool_sh, P_bin_tool, P_bin_tool_nt, P_abs_tool, P_abs_tool_nt,
          P_dot_rc}

\* the step's cwd is an absolute path
Cwds(win) == IF win THEN {<<"\\", "w">>} ELSE {<<"/", "w">>}

D_a == <<"/", "a">>
D_b == <<"/", "b", "/">>
D_rel == <<"rel">>

\* PATH lists: empty, one entry, two entries in both orders, an entry that
\* is not absolute, an empty entry
PathLists ==
  {<<>>, <<D_a>>, <<D_a, D_b>>, <<D_b, D_a>>, <<D_rel, D_a>>, <<<<>>, D_b>>}

FileKinds == {"file", "xfile", "dir"}

\* every path the resolution of c0 could look at
Probes(win, c0, wd, ps) ==
  LET bases == {c0, join(win, wd, c0)} \cup {join(win, ps[i], c0) : i \in DOMAIN ps}
  IN  bases \cup {b \o <<".", "exe">> : b \in bases}
            \cup {b \o <<".", "bat">> : b \in bases}

ResolveInit ==
  /\ rc_cmd0 \in Cmd0s
  /\ rc_cwd \in Cwds(_MSWINDOWS)
  /\ rc_paths \in PathLists
  /\ \E p1, p2 \in Probes(_MSWINDOWS, rc_cmd0, rc_cwd, rc_paths) :
       \E k1, k2 \in FileKinds :
         rc_fs = [p \in {p1, p2} |-> IF p = p1 THEN k1 ELSE k2]
  /\ resolved = None
  /\ rc_pc = "start"

\* an engine that resolves nothing
ResolveIdle ==
  /\ rc_cmd0 = P_tool
  /\ rc_cwd = <<"/", "w">>
  /\ rc_paths = <<>>
  /\ rc_fs = [p \in {P_tool} |-> "dir"]
  /\ resolved = None
  /\ rc_pc = "start"

\* the engine resolves the step's argv[0]
ResolveCmd0 ==
  /\ rc_pc = "start"
  /\ resolved' = resolve_cmd0(_MSWINDOWS, rc_fs, rc_cmd0, rc_cwd, rc_paths)
  /\ rc_pc' = "done"
  /\ UNCHANGED <<rc_cmd0, rc_cwd, rc_paths, rc_fs>>

(***************************************************************************)
(* Spawning the child (SubprocessStepRunner._mk_proc)                      *)
(***************************************************************************)
MaxSpawns == 3        \* calls of _mk_proc in one run

\* values of a PATH variable
PathValues == {"/usr/bin", "/a/bin", "/b/bin"}

\* step.env.get('PATH'): the step's PATH, or None when its env has none
StepPaths == {None} \cup {Some(v) : v \in PathValues}

MkInit ==
  /\ os_environ_PATH \in {"/usr/bin", "/a/bin"}
  /\ path0 = os_environ_PATH
  /\ orig_path = None
  /\ mk_pc = "idle"
  /\ spawns = <<>>

\* an engine that spawns nothing
MkIdle == MkInit /\ os_environ_PATH = "/usr/bin"

\* _mk_proc raises while it opens the step's handles, before it reads PATH
MkProcOpenFails ==
  /\ mk_pc = "idle"
  /\ Len(spawns) < MaxSpawns
  /\ spawns' = Append(spawns, [env_PATH |-> None, lookup |-> None, result |-> "raised"])
  /\ UNCHANGED <<os_environ_PATH, path0, orig_path, mk_pc>>

\* _mk_proc up to the call of subprocess.Popen: orig_path is saved, and a
\* step that defines PATH has it installed process-wide
MkProcBegin(env_PATH) ==
  /\ mk_pc = "idle"
  /\ Len(spawns) < MaxSpawns
  /\ orig_path' = Some(os_environ_PATH)
  /\ os_environ_PATH' = IF env_PATH # None THEN env_PATH[1] ELSE os_environ_PATH
  /\ spawns' = Append(spawns, [env_PATH |-> env_PATH, lookup |-> Some(os_environ_PATH'),
                               result |-> "pending"])
  /\ mk_pc' = "Popen"
  /\ UNCHANGED path0

RestoredPath_OnReturnOnly(orig, cur, raised) == IF raised THEN cur ELSE orig

\* finally: os.environ['PATH'] = orig_path
RestoredPath(orig, cur, raised) == orig

\* subprocess.Popen returns the child or raises (OSError for a command
\* that cannot be executed); the finally clause runs either way
PopenEnds(raised) ==
  /\ mk_pc = "Popen"
  /\ os_environ_PATH' = RestoredPath(orig_path[1], os_environ_PATH, raised)
  /\ spawns' = [spawns EXCEPT ![Len(spawns)].result =
                                IF raised THEN "raised" ELSE "returned"]
  /\ mk_pc' = "idle"
  /\ orig_path' = None
  /\ UNCHANGED path0

(***************************************************************************)
(* Running a step with piped output (SubprocessStepRunner.run)             *)
(*                                                                         *)
(* What the child writes to a pipe is a sequence of tokens, "\n" being     *)
(* the newline; a line of the sink is a sequence of tokens.                *)
(***************************************************************************)
CloseTimeoutMs == 100 \* gevent.Timeout(.1) around handle.close()
PoolGrowth == 2       \* threadpool.maxsize += 2

\* what a child writes to one pipe before it exits
Outputs ==
  {<<>>, <<"a">>, <<"a", "\n">>, <<"a", "\n", "b">>, <<"\n", "a", "\n", "\n">>}

\* how long handle.close() takes: less or more than the timeout
CloseTimes == {CloseTimeoutMs - 1, CloseTimeoutMs + 1}

RunInit ==
  /\ run_pc = "wait"
  /\ pipes \in SUBSET {"stdout", "stderr"}
  /\ script \in [pipes -> Outputs]
  /\ wrote = [n \in pipes |-> 0]
  /\ buf = [n \in pipes |-> <<>>]
  /\ child = None
  /\ worker = [n \in pipes |-> "spawned"]
  /\ sink = [n \in pipes |-> <<>>]
  /\ closes = [n \in pipes |-> None]
  /\ threadpool_maxsize = 10
  /\ debug_log = {}
  /\ run_ret = None

\* an engine that runs no step with pipes
RunIdle == RunInit /\ pipes = {}

\* the child writes the next token of its output to pipe n
ChildWrite(n) ==
  /\ child = None
  /\ wrote[n] < Len(script[n])
  /\ wrote' = [wrote EXCEPT ![n] = @ + 1]
  /\ buf' = [buf EXCEPT ![n] = Append(@, script[n][wrote[n] + 1])]
  /\ UNCHANGED <<run_pc, pipes, script, child, worker, sink, closes,
                 threadpool_maxsize, debug_log, run_ret>>

\* the child exits with rc after it has written everything; its ends of the
\* pipes are closed
ChildExit(rc) ==
  /\ child = None
  /\ \A n \in pipes : wrote[n] = Len(script[n])
  /\ child' = Some(rc)
  /\ UNCHANGED <<run_pc, pipes, script, wrote, buf, worker, sink, closes,
                 threadpool_maxsize, debug_log, run_ret>>

\* the index of the first newline of b, 0 when there is none
FirstNewline(b) ==
  LET nl == {i \in DOMAIN b : b[i] = "\n"}
  IN  IF nl = {} THEN 0 ELSE CHOOSE i \in nl : \A j \in nl : i <= j

\* how many tokens handle.readline() returns now: through the first newline,
\* or the rest at end of file; 0 while it has to wait or at end of file
ReadlineLen(b, eof) ==
  IF FirstNewline(b) > 0 THEN FirstNewline(b)
  ELSE IF eof THEN Len(b) ELSE 0

\* data.rstrip('\n')
RECURSIVE rstrip_nl(_)
rstrip_nl(data) ==
  IF data # <<>> /\ data[Len(data)] = "\n" THEN rstrip_nl(ButLast(data)) ELSE data

\* the workers run while the task of run is suspended in _wait_proc
WorkerRuns(n) == run_pc = "wait" /\ worker[n] \in {"spawned", "running"}

\* _copy_lines: data = handle.readline(); outstream.write_line(...)
CopyLine(n) ==
  /\ WorkerRuns(n)
  /\ LET k == ReadlineLen(buf[n], child # None)
     IN  /\ k > 0
         /\ sink' = [sink EXCEPT ![n] = Append(@, rstrip_nl(SubSeq(buf[n], 1, k)))]
         /\ buf' = [buf EXCEPT ![n] = SubSeq(@, k + 1, Len(@))]
  /\ worker' = [worker EXCEPT ![n] = "running"]
  /\ UNCHANGED <<run_pc, pipes, script, wrote, child, closes, threadpool_maxsize,
                 debug_log, run_ret>>

\* _copy_lines: readline returns '' at end of file: break
CopyEOF(n) ==
  /\ WorkerRuns(n)
  /\ child # None
  /\ buf[n] = <<>>
  /\ worker' = [worker EXCEPT ![n] = "finished"]
  /\ UNCHANGED <<run_pc, pipes, script, wrote, buf, child, sink, closes,
                 threadpool_maxsize, debug_log, run_ret>>

\* _wait_proc returns the ExecutionResult of the child that exited
WaitProcReturns ==
  /\ run_pc = "wait"
  /\ child # None
  /\ run_pc' = "reap"
  /\ UNCHANGED <<pipes, script, wrote, buf, child, worker, sink, closes,
                 threadpool_maxsize, debug_log, run_ret>>

\* worker.kill() on a worker in state w; gevent.wait(workers)
Reaped(w) == IF w = "finished" THEN w ELSE "killed"

\* _reap_workers: every worker is killed and waited for
ReapWorkers ==
  /\ run_pc = "reap"
  /\ worker' = [n \in pipes |-> Reaped(worker[n])]
  /\ run_pc' = "close"
  /\ UNCHANGED <<pipes, script, wrote, buf, child, sink, closes, threadpool_maxsize,
                 debug_log, run_ret>>

\* handle.close() ends in time, or raises IOError or RuntimeError in time,
\* or the Timeout fires first
CloseResults(took) ==
  IF took > CloseTimeoutMs THEN {"Timeout"} ELSE {"closed", "IOError", "RuntimeError"}

PoolAfterClose_OneThread(size, result) ==
  IF result \in {"Timeout", "IOError"} THEN size + 1 ELSE size

\* _safe_close: threadpool.maxsize after handle.close() ended with result
PoolAfterClose(size, result) ==
  IF result \in {"Timeout", "IOError"} THEN size + PoolGrowth ELSE size

\* _safe_close: the line written to debug_log for a result
CloseLogLine(result) ==
  CASE result = "closed" -> "  closed!"
    [] result = "Timeout" -> "  LEAKED: timeout closing handle"
    [] result = "IOError" -> "  LEAKED: unable to close"
    [] OTHER -> "  LEAKED?: race with IO worker"

\* _reap_workers: _safe_close(debug_log, handle_name, handle) for one of
\* the handles to close
SafeClose(n, took, result) ==
  /\ run_pc = "close"
  /\ closes[n] = None
  /\ result \in CloseResults(took)
  /\ threadpool_maxsize' = PoolAfterClose(threadpool_maxsize, result)
  /\ closes' = [closes EXCEPT ![n] =
                  Some([took |-> took, result |-> result,
                        before |-> threadpool_maxsize,
                        after |-> threadpool_maxsize'])]
  /\ debug_log' = debug_log \cup {<<n, CloseLogLine(result)>>}
  /\ UNCHANGED <<run_pc, pipes, script, wrote, buf, child, worker, sink, run_ret>>

\* run returns exc_result once every handle has been through _safe_close
RunReturns ==
  /\ run_pc = "close"
  /\ \A n \in pipes : closes[n] # None
  /\ run_ret' = Some([retcode |-> child, had_timeout |-> FALSE, was_cancelled |-> FALSE])
  /\ run_pc' = "returned"
  /\ UNCHANGED <<pipes, script, wrote, buf, child, worker, sink, closes,
                 threadpool_maxsize, debug_log>>

\* ===================================================================
\* The reporter of the test command (commands/test/report.py).
\* A TestResults.Results message is the set of its populated fields.
\* ===================================================================

MaxReports == 1

FieldOrder_DiffFirst ==
  <<"diff", "internal_error", "bad_test", "crash_mismatch", "check",
    "removed", "written", "None">>

\* FIELD_TO_DISPLAY, in its order; the last key is None
FieldOrder ==
  <<"internal_error", "bad_test", "crash_mismatch", "check", "diff",
    "removed", "written", "None">>

Display(success, verbose_msg, emj, txt) ==
  [success |-> success, verbose_msg |-> verbose_msg, emj |-> emj, txt |-> txt]

FIELD_TO_DISPLAY ==
  [f \in Range(FieldOrder) |->
     CASE f = "internal_error" ->
            Display(FALSE, "internal testrunner error", "emj_sos", "!")
       [] f = "bad_test" ->
            Display(FALSE, "test specification was bad/invalid", "emj_stop", "S")
       [] f = "crash_mismatch" ->
            Display(FALSE, "recipe crashed in an unexpected way", "emj_fire", "E")
       [] f = "check" ->
            Display(FALSE, "failed post_process check(s)", "emj_cross", "X")
       [] f = "diff" ->
            Display(FALSE, "expectation file has diff", "emj_zap", "D")
       [] f = "removed" ->
            Display(TRUE, "removed expectation file", "emj_star", "R")
       [] f = "written" ->
            Display(TRUE, "updated expectation file", "emj_disk", "D")
       [] f = "None" ->
            Display(TRUE, "", "emj_check", ".")]

\* the tuple _check_field gives for a field that is not populated: four
\* values that are false in a condition, as (None, None, None, None) are
NoDisplay == Display(FALSE, "", "", "")

\* _check_field: the display tuple (the value is not modelled beyond being
\* populated)
_check_field(result, field_name) ==
  IF field_name = "None" THEN FIELD_TO_DISPLAY[field_name]
  ELSE IF field_name \in result THEN FIELD_TO_DISPLAY[field_name]
  ELSE NoDisplay

Icon(use_emoji, d) == IF use_emoji THEN d.emj ELSE d.txt

\* the loop of _print_summary_info: the display tuple it breaks on
RECURSIVE PickDisplay(_, _, _)
PickDisplay(use_emoji, result, i) ==
  LET d == _check_field(result, FieldOrder[i])
  IN  IF i = Len(FieldOrder) \/ Icon(use_emoji, d) # "" THEN d
      ELSE PickDisplay(use_emoji, result, i + 1)

\* _print_summary_info: what it writes to stdout
_print_summary_info(verbose, use_emoji, test_name, result) ==
  LET d == PickDisplay(use_emoji, result, 1)
  IN  IF verbose
      THEN [line |-> test_name,
            status |-> IF d.success THEN "ok" ELSE "FAIL",
            msg |-> d.verbose_msg]
      ELSE [icon |-> Icon(use_emoji, d)]

\* the fields _print_detail_info writes a FAIL header for, in its order
DetailFields == <<"internal_error", "bad_test", "crash_mismatch", "check", "diff">>

\* _print_detail_info: the headers it appends to err_buf
RECURSIVE _print_detail_info(_, _, _)
_print_detail_info(test_name, result, i) ==
  IF i > Len(DetailFields) THEN <<>>
  ELSE (IF DetailFields[i] \in result
        THEN << <<FIELD_TO_DISPLAY[DetailFields[i]].verbose_msg, test_name>> >>
        ELSE <<>>)
       \o _print_detail_info(test_name, result, i + 1)

\* an Outcome message: its internal_error and its test_results, which here
\* hold one test
Outcome(internal_error, test_name, result) ==
  [internal_error |-> internal_error, test_name |-> test_name,
   test_result |-> result]

\* what short_report does with an outcome that has no internal_error
ReportTests(outcome_msg) ==
  /\ _long_err_buf' =
       _long_err_buf \o
       _print_detail_info(outcome_msg.test_name, outcome_msg.test_result, 1)
  /\ LET count == _symbol_count + 1
         wrap == ~_verbose /\ count % _symbol_max = 0
     IN  /\ _symbol_count' = (IF wrap THEN 0 ELSE count)
         /\ stdout' =
              stdout \o
              <<_print_summary_info(_verbose, _use_emoji, outcome_msg.test_name,
                                    outcome_msg.test_result)>> \o
              (IF wrap THEN <<[newline |-> TRUE]>> ELSE <<>>)
  /\ reported' = Append(reported, outcome_msg)
  /\ UNCHANGED rp_exit

short_report_NoAbort(outcome_msg) == ReportTests(outcome_msg)

\* Reporter.short_report
short_report(outcome_msg) ==
  IF outcome_msg.internal_error
  THEN /\ stdout' = stdout \o <<[abort |-> "ABORT ABORT ABORT"]>>
       /\ rp_exit' = Some(1)
       /\ UNCHANGED <<_symbol_count, _long_err_buf, reported>>
  ELSE ReportTests(outcome_msg)

\* int(x) of a percentage given in tenths
int10(tenths) == tenths \div 10

insufficient_coverage_Never(cov, measured, percent) == FALSE

\* final_report: the coverage gate
insufficient_coverage(cov, measured, percent) ==
  cov /\ measured /\ int10(percent) # 100

final_report_fails_ErrorsOnly(long_err_buf, cov, measured, percent, uncovered_modules, unused_files) ==
  long_err_buf # <<>>

\* final_report: the value of `fail` at its end
final_report_fails(long_err_buf, cov, measured, percent, uncovered_modules, unused_files) ==
  \/ long_err_buf # <<>>
  \/ insufficient_coverage(cov, measured, percent)
  \/ uncovered_modules # {}
  \/ unused_files # {}

\* Reporter.final_report(cov, outcome_msg); `percent` is what cov.report
\* returns (outcome_msg.coverage_percent keeps its value when it raises)
final_report(cov, measured, percent, uncovered_modules, unused_files) ==
  LET fail == final_report_fails(_long_err_buf, cov, measured, percent,
                                 uncovered_modules, unused_files)
  IN  /\ coverage_percent' = (IF cov /\ measured THEN percent ELSE coverage_percent)
      /\ rp_final' = Some([cov |-> cov, measured |-> measured,
                           percent |-> percent,
                           uncovered_modules |-> uncovered_modules,
                           unused_expectation_files |-> unused_files])
      /\ stdout' =
           stdout \o
           (IF insufficient_coverage(cov, measured, percent)
            THEN <<[fatal |-> "Insufficient coverage"]>> ELSE <<>>) \o
           (IF fail
            THEN <<[final |-> "FAILED"]>> \o
                 (IF ~_is_train THEN <<[note |-> "test train"]>> ELSE <<>>)
            ELSE <<[final |-> "OK"]>>)
      /\ rp_exit' = (IF fail THEN Some(1) ELSE None)
      /\ UNCHANGED <<_symbol_count, _long_err_buf, reported>>

\* a new Reporter(use_emoji, is_train)
ReporterStart ==
  /\ _symbol_count = 0
  /\ _long_err_buf = <<>>
  /\ stdout = <<>>
  /\ reported = <<>>
  /\ coverage_percent = 0
  /\ rp_exit = None
  /\ rp_final = None

\* the results a test may have: at most two fields populated, or all
TestResultValues ==
  {fs \in SUBSET (Range(FieldOrder) \ {"None"}) :
     Cardinality(fs) <= 2 \/ fs = Range(FieldOrder) \ {"None"}}

OutcomeValues ==
  {Outcome(FALSE, "t", r) : r \in TestResultValues} \cup
  {Outcome(TRUE, "t", {}), Outcome(TRUE, "t", {"diff"})}

CoveragePercents == {0, 999, 1000}

ReportInit ==
  /\ _use_emoji \in BOOLEAN
  /\ _is_train \in BOOLEAN
  /\ _verbose \in BOOLEAN
  /\ _symbol_max \in {1, 80}
  /\ ReporterStart

ReportIdle ==
  /\ _use_emoji = FALSE
  /\ _is_train = FALSE
  /\ _verbose = FALSE
  /\ _symbol_max = 80
  /\ ReporterStart

reportConfig == <<_use_emoji, _is_train, _verbose, _symbol_max>>

\* an entry of stdout that is the line or glyph of a test
IsTestLine(e) == "icon" \in DOMAIN e \/ "line" \in DOMAIN e

\* a caller hands the reporter an outcome
ShortReport(outcome_msg) ==
  /\ rp_exit = None
  /\ rp_final = None
  /\ Len(SelectSeq(stdout, IsTestLine)) < MaxReports
  /\ short_report(outcome_msg)
  /\ UNCHANGED <<reportConfig, coverage_percent, rp_final>>

\* a caller asks for the final report
FinalReportCall(cov, measured, percent, uncovered_modules, unused_files) ==
  /\ rp_exit = None
  /\ rp_final = None
  /\ final_report(cov, measured, percent, uncovered_modules,
                  unused_files)
  /\ UNCHANGED reportConfig

\* ===================================================================
\* The test driver (commands/test/run_train.py) and its reporter
\* (commands/test/report.py).  The RunnerThread pool (commands/test/
\* runner.py) is modelled from section 4.I of the specification.
\* ===================================================================

MaxWorkers == 2

\* Names are sequences of tokens; "." and "*" are tokens of their own.
Recipes == {"r1", "r2"}

TestCase(name, expect_file) == [name |-> name, expect_file |-> expect_file]

T_a == TestCase("a", "a.json")
T_b == TestCase("b", "b.json")
\* a second name that maps to the expectation file of "b"
T_b2 == TestCase("b2", "b.json")

Gen(tests, raises) == [tests |-> tests, raises |-> raises]

\* what a gen_tests may do: yield test cases, then return or raise
GenScripts ==
  { Gen(<<>>, FALSE), Gen(<<T_a>>, FALSE), Gen(<<T_a, T_b>>, FALSE),
    Gen(<<T_a, T_a>>, FALSE), Gen(<<T_b, T_b2>>, FALSE),
    Gen(<<T_a>>, TRUE) }

\* the second recipe has at most one test case
GenScripts1 == { Gen(<<>>, FALSE), Gen(<<T_b>>, FALSE), Gen(<<>>, TRUE) }

Filters ==
  { <<>>, << <<"r1", ".", "*">> >>, << <<"r2", ".", "*">> >>,
    << <<"*", ".", "a">> >> }

ExpectationDirs == { {}, {"b.json", "z.json"} }

\* fnmatch.translate(pat) compiled and matched: the pattern has to match
\* the whole name, "*" matches any run of characters
RECURSIVE fnmatch(_, _)
fnmatch(pat, s) ==
  IF pat = <<>> THEN s = <<>>
  ELSE IF Head(pat) = "*"
       THEN fnmatch(Tail(pat), s) \/ (s # <<>> /\ fnmatch(pat, Tail(s)))
       ELSE s # <<>> /\ Head(s) = Head(pat) /\ fnmatch(Tail(pat), Tail(s))

\* pattern.split('.', 1)[0]
split_dot0(pattern) ==
  IF \E i \in 1..Len(pattern) : pattern[i] = "."
  THEN SubSeq(pattern, 1,
              (CHOOSE i \in 1..Len(pattern) :
                 pattern[i] = "." /\ \A j \in 1..(i-1) : pattern[j] # ".") - 1)
  ELSE pattern

recipe_filter(filters, recipe_name) ==
  IF filters = <<>> THEN TRUE
  ELSE \E i \in 1..Len(filters) : fnmatch(split_dot0(filters[i]), recipe_name)

test_filter_NoneWhenEmpty(filters, full_test_case_name) ==
  \E i \in 1..Len(filters) : fnmatch(filters[i], full_test_case_name)

test_filter(filters, full_test_case_name) ==
  IF filters = <<>> THEN TRUE
  ELSE \E i \in 1..Len(filters) : fnmatch(filters[i], full_test_case_name)

\* '%s.%s' % (recipe.name, test_case.name)
FullName(recipe_name, test_name) == <<recipe_name, ".", test_name>>

Description(recipe_name, test_name) == <<recipe_name, test_name>>

\* what travels on outcome_queue: an Outcome message of a RunnerThread, or
\* the RunnerThread itself
OutcomeMsg(thread, msg) == [thread |-> thread, kind |-> "Outcome", msg |-> msg]

ThreadDone_AsOutcome(thread) ==
  [thread |-> thread, kind |-> "Outcome", msg |-> Outcome(FALSE, <<>>, {})]

ThreadDone(thread) ==
  [thread |-> thread, kind |-> "RunnerThread", msg |-> Outcome(FALSE, <<>>, {})]

\* how the execution of a test may end: nothing to report, a diff with the
\* expectation file, or an internal error of the test harness
OutcomeKinds == {"ok", "diff", "internal_error"}

\* how the execution of a given test may end: the tests named "a" pass or
\* break the harness, the others pass or differ from their expectation
TestOutcomes(d) ==
  IF d[2] = "a" THEN {"ok", "internal_error"} ELSE {"ok", "diff"}

OutcomeOf(d, kind) ==
  Outcome(kind = "internal_error", d, IF kind = "diff" THEN {"diff"} ELSE {})

\* the Outcome message main hands to _run, empty
Outcome0 == [unused_expectation_files |-> {}, test_results |-> <<>>]

UncoveredModules == { {}, {"m"} }

\* what the coverage data and the module list of a run may be: nothing
\* measured, full coverage, a line missed, a module without any test
CoverageCases ==
  { [measured |-> FALSE, percent |-> 0, uncovered_modules |-> {}],
    [measured |-> TRUE, percent |-> 1000, uncovered_modules |-> {}],
    [measured |-> TRUE, percent |-> 999, uncovered_modules |-> {}],
    [measured |-> TRUE, percent |-> 1000, uncovered_modules |-> {"m"}] }

collect_coverage_Always(filters) == TRUE

\* collect_coverage=not test_filters
collect_coverage(filters) == filters = <<>>

\* _run is entered: nothing has been made, put or reported
DriverStart ==
  /\ drv_pc = "make_pool"
  /\ recipe_i = 1
  /\ test_i = 1
  /\ used_expectations = {}
  /\ test_filenames = EmptyDict
  /\ unused_expectation_files = {}
  /\ live_threads = {}
  /\ cov_dir = "unbound"
  /\ description_queue = <<>>
  /\ outcome_queue = <<>>
  /\ runner = [t \in all_threads |-> [pc |-> "unborn", cur |-> None]]
  /\ test_result = Outcome0
  /\ drv_exc = None
  /\ cleaned = None
  /\ pool_coverage = None
  /\ shards_read = {}
  /\ main_ret = None
  /\ put_log = <<>>
  /\ put_over_unread = FALSE
  /\ executed = <<>>
  /\ carried = <<>>
  /\ removed = {}

DriverInit ==
  /\ test_filters \in Filters
  /\ is_train \in BOOLEAN
  /\ recipes = <<"r1", "r2">>
  /\ gen_tests \in {[r \in Recipes |-> IF r = "r1" THEN g ELSE h] :
                     g \in GenScripts, h \in GenScripts1}
  /\ expectation_paths \in {[r \in Recipes |-> d] : d \in ExpectationDirs}
  \* training is of interest where expectation files exist
  /\ is_train => \A r \in Recipes : expectation_paths[r] # {}
  /\ all_threads \in {1..n : n \in 1..MaxWorkers}
  /\ DriverStart

\* a driver that is not running
DriverIdle ==
  /\ test_filters = <<>>
  /\ is_train = FALSE
  /\ recipes = <<"r1", "r2">>
  /\ gen_tests = [r \in Recipes |-> Gen(<<>>, FALSE)]
  /\ expectation_paths = [r \in Recipes |-> {}]
  /\ all_threads = {1}
  /\ DriverStart

\* reporter = report.Reporter(use_emoji, is_train)
DriverReporter ==
  /\ _use_emoji = FALSE
  /\ _is_train = is_train
  /\ _verbose = FALSE
  /\ _symbol_max = 80
  /\ ReporterStart

DriverRaise(e) ==
  /\ drv_exc' = Some(e)
  /\ drv_pc' = "finally"

pushUnchanged ==
  UNCHANGED <<test_filters, is_train, recipes, gen_tests, all_threads,
              live_threads, cov_dir, outcome_queue, runner, test_result,
              cleaned, executed, carried, pool_coverage, shards_read,
              main_ret, reportVars>>

\* RunnerThread.make_pool, which may fail, and live_threads = list(all_threads)
MakePool(ok) ==
  /\ drv_pc = "make_pool"
  /\ IF ok
     THEN /\ pool_coverage' = Some(collect_coverage(test_filters))
          /\ cov_dir' = (IF collect_coverage(test_filters)
                         THEN Some("cov") ELSE None)
          /\ live_threads' = all_threads
          /\ runner' = [t \in all_threads |-> [pc |-> "get", cur |-> None]]
          /\ drv_pc' = "push"
          /\ UNCHANGED drv_exc
     ELSE /\ DriverRaise("make_pool")
          /\ UNCHANGED <<cov_dir, live_threads, runner, pool_coverage>>
  /\ UNCHANGED <<test_filters, is_train, recipes, gen_tests, expectation_paths,
                 recipe_i, test_i, used_expectations, test_filenames,
                 unused_expectation_files, all_threads, description_queue,
                 outcome_queue, test_result, cleaned, put_log, put_over_unread, executed,
                 carried, removed, shards_read, main_ret, reportVars>>

\* _push_tests: the head of the loop over the recipes
PushRecipe ==
  /\ drv_pc = "push"
  /\ recipe_i <= Len(recipes)
  /\ IF recipe_filter(test_filters, <<recipes[recipe_i]>>)
     THEN /\ used_expectations' = {}
          /\ test_filenames' = EmptyDict
          /\ test_i' = 1
          /\ drv_pc' = "gen"
          /\ UNCHANGED recipe_i
     ELSE /\ recipe_i' = recipe_i + 1
          /\ UNCHANGED <<used_expectations, test_filenames, test_i, drv_pc>>
  /\ UNCHANGED <<expectation_paths, unused_expectation_files,
                 description_queue, drv_exc, put_log, put_over_unread, removed>>
  /\ pushUnchanged

Unused_All(expectation_paths_, used) == expectation_paths_

\* recipe.expectation_paths - used_expectations
Unused(expectation_paths_, used) == expectation_paths_ \ used

\* _push_tests: one step of the loop over recipe.gen_tests(), up to the
\* gevent.sleep() after a put, the raise, or the end of the recipe
GenTest ==
  /\ drv_pc = "gen"
  /\ LET recipe == recipes[recipe_i]
         gen == gen_tests[recipe]
     IN IF test_i > Len(gen.tests)
        THEN /\ IF gen.raises
                THEN /\ DriverRaise("gen_tests")
                     /\ UNCHANGED <<recipe_i, unused_expectation_files>>
                ELSE /\ unused_expectation_files' =
                          unused_expectation_files \cup
                          { <<recipe, f>> :
                              f \in Unused(expectation_paths[recipe],
                                           used_expectations) }
                     /\ recipe_i' = recipe_i + 1
                     /\ drv_pc' = "push"
                     /\ UNCHANGED drv_exc
             /\ UNCHANGED <<used_expectations, test_filenames, test_i,
                            description_queue, put_log, put_over_unread>>
        ELSE LET test_case == gen.tests[test_i]
                 expect_file == test_case.expect_file
             IN /\ used_expectations' = used_expectations \cup {expect_file}
                /\ UNCHANGED <<recipe_i, unused_expectation_files>>
                /\ IF expect_file \in DOMAIN test_filenames
                   THEN /\ DriverRaise("ValueError")
                        /\ UNCHANGED <<test_filenames, test_i,
                                       description_queue, put_log, put_over_unread>>
                   ELSE /\ test_filenames' =
                             [f \in DOMAIN test_filenames \cup {expect_file} |->
                                IF f = expect_file THEN test_case.name
                                ELSE test_filenames[f]]
                        /\ UNCHANGED drv_exc
                        /\ IF test_filter(test_filters,
                                          FullName(recipe, test_case.name))
                           THEN /\ description_queue' =
                                     Append(description_queue,
                                            Description(recipe, test_case.name))
                                /\ put_log' =
                                     Append(put_log,
                                            Description(recipe, test_case.name))
                                /\ put_over_unread' =
                                     (put_over_unread \/
                                      \E i \in DOMAIN outcome_queue :
                                         outcome_queue[i].kind = "Outcome")
                                /\ drv_pc' = "sleep"
                                /\ UNCHANGED test_i
                           ELSE /\ test_i' = test_i + 1
                                /\ UNCHANGED <<description_queue, put_log, put_over_unread, drv_pc>>
  /\ UNCHANGED <<expectation_paths, removed>>
  /\ pushUnchanged

\* _push_tests: gevent.sleep() returns
PushResume ==
  /\ drv_pc = "sleep"
  /\ drv_pc' = "gen"
  /\ test_i' = test_i + 1
  /\ UNCHANGED <<expectation_paths, recipe_i, used_expectations, test_filenames,
                 unused_expectation_files, description_queue, drv_exc, put_log, put_over_unread,
                 removed>>
  /\ pushUnchanged

\* _push_tests returns: the unused files in run mode; in train mode it
\* removes them and returns the empty set
PushTestsReturn ==
  /\ drv_pc = "push"
  /\ recipe_i > Len(recipes)
  /\ IF ~is_train
     THEN /\ test_result' =
               [test_result EXCEPT !.unused_expectation_files =
                                      unused_expectation_files]
          /\ UNCHANGED <<expectation_paths, removed>>
     ELSE /\ expectation_paths' =
               [r \in Recipes |->
                  { f \in expectation_paths[r] :
                      <<r, f>> \notin unused_expectation_files }]
          /\ removed' = removed \cup unused_expectation_files
          /\ UNCHANGED test_result
  /\ drv_pc' = "poison"
  /\ UNCHANGED <<test_filters, is_train, recipes, gen_tests, recipe_i, test_i,
                 used_expectations, test_filenames, unused_expectation_files,
                 all_threads, live_threads, cov_dir, description_queue,
                 outcome_queue, runner, drv_exc, cleaned, put_log, put_over_unread, executed,
                 carried,
                 pool_coverage, shards_read, main_ret, reportVars>>

PoisonPills_One(threads) == <<None>>

\* for thread in all_threads: description_queue.put(None)
PoisonPills(threads) == [i \in 1..Cardinality(threads) |-> None]

PutPoisonPills ==
  /\ drv_pc = "poison"
  /\ description_queue' = description_queue \o PoisonPills(all_threads)
  /\ put_log' = put_log \o PoisonPills(all_threads)
  /\ UNCHANGED put_over_unread
  /\ drv_pc' = "drain"
  /\ UNCHANGED <<test_filters, is_train, recipes, gen_tests, expectation_paths,
                 recipe_i, test_i, used_expectations, test_filenames,
                 unused_expectation_files, all_threads, live_threads, cov_dir,
                 outcome_queue, runner, test_result, drv_exc, cleaned,
                 executed, carried, removed,
                 pool_coverage, shards_read, main_ret, reportVars>>

\* the driver greenlet is suspended: in gevent.sleep(), or in
\* outcome_queue.get() on an empty queue
DriverYielded == drv_pc \in {"sleep", "get"}

runnerUnchanged ==
  UNCHANGED <<test_filters, is_train, recipes, gen_tests, expectation_paths,
              drv_pc, recipe_i, test_i, used_expectations, test_filenames,
              unused_expectation_files, all_threads, live_threads, cov_dir,
              test_result, drv_exc, cleaned, put_log, put_over_unread, removed,
              pool_coverage, shards_read, main_ret, reportVars>>

\* a RunnerThread takes the next item of description_queue; on the poison
\* pill it pushes itself onto outcome_queue and ends
RunnerGet(t) ==
  /\ DriverYielded
  /\ runner[t].pc = "get"
  /\ description_queue # <<>>
  /\ description_queue' = Tail(description_queue)
  /\ IF Head(description_queue) = None
     THEN /\ runner' = [runner EXCEPT ![t].pc = "done"]
          /\ outcome_queue' = Append(outcome_queue, ThreadDone(t))
          /\ carried' = Append(carried, ThreadDone(t))
     ELSE /\ runner' = [runner EXCEPT ![t] =
                          [pc |-> "run", cur |-> Some(Head(description_queue))]]
          /\ UNCHANGED <<outcome_queue, carried>>
  /\ UNCHANGED executed
  /\ runnerUnchanged

\* a RunnerThread has executed its test and pushes the Outcome
RunnerOutcome(t, kind) ==
  /\ DriverYielded
  /\ runner[t].pc = "run"
  /\ kind \in TestOutcomes(runner[t].cur[1])
  /\ executed' = Append(executed, runner[t].cur[1])
  /\ outcome_queue' =
       Append(outcome_queue, OutcomeMsg(t, OutcomeOf(runner[t].cur[1], kind)))
  /\ carried' =
       Append(carried, OutcomeMsg(t, OutcomeOf(runner[t].cur[1], kind)))
  /\ runner' = [runner EXCEPT ![t] = [pc |-> "get", cur |-> None]]
  /\ UNCHANGED description_queue
  /\ runnerUnchanged

drainUnchanged ==
  UNCHANGED <<test_filters, is_train, recipes, gen_tests, expectation_paths,
              recipe_i, test_i, used_expectations, test_filenames,
              unused_expectation_files, all_threads, cov_dir,
              description_queue, runner, cleaned, put_log, put_over_unread, executed, carried,
              removed, pool_coverage, main_ret, reportConfig>>

\* outcome_queue.get() finds the queue empty: the driver greenlet waits
DrainBlock ==
  /\ drv_pc = "drain"
  /\ live_threads # {}
  /\ outcome_queue = <<>>
  /\ drv_pc' = "get"
  /\ UNCHANGED <<live_threads, outcome_queue, test_result, drv_exc,
                 shards_read, _symbol_count, _long_err_buf, stdout, reported,
                 coverage_percent, rp_exit, rp_final>>
  /\ drainUnchanged

LiveAfter_None(live, thread) == {}

\* live_threads.remove(rslt)
LiveAfter(live, thread) == live \ {thread}

\* one turn of `while live_threads:` with an item on outcome_queue: a
\* RunnerThread leaves live_threads; an Outcome is merged into test_result
\* and handed to Reporter.short_report, which may leave with sys.exit(1)
Drain ==
  /\ drv_pc \in {"drain", "get"}
  /\ live_threads # {}
  /\ outcome_queue # <<>>
  /\ outcome_queue' = Tail(outcome_queue)
  /\ LET rslt == Head(outcome_queue)
     IN IF rslt.kind = "RunnerThread"
        THEN /\ live_threads' = LiveAfter(live_threads, rslt.thread)
             /\ drv_pc' = "drain"
             /\ UNCHANGED <<test_result, drv_exc, _symbol_count, _long_err_buf,
                            stdout, reported, rp_exit>>
        ELSE /\ test_result' =
                  [test_result EXCEPT !.test_results = Append(@, rslt.msg)]
             /\ UNCHANGED live_threads
             /\ short_report(rslt.msg)
             /\ IF rp_exit' # None
                THEN DriverRaise("SystemExit")
                ELSE drv_pc' = "drain" /\ UNCHANGED drv_exc
  /\ UNCHANGED <<shards_read, coverage_percent, rp_final>>
  /\ drainUnchanged

\* the loop is over: the coverage shard of every thread is read when there
\* are no filters, and the final report is made
FinalReport(measured, percent, uncovered_modules) ==
  /\ drv_pc = "drain"
  /\ live_threads = {}
  /\ drv_pc' = "finally"
  /\ shards_read' = (IF test_filters = <<>> THEN all_threads ELSE {})
  /\ final_report(test_filters = <<>>, measured, percent, uncovered_modules,
                  test_result.unused_expectation_files)
  /\ drv_exc' = (IF rp_exit' # None THEN Some("SystemExit") ELSE None)
  /\ UNCHANGED <<live_threads, test_result, outcome_queue>>
  /\ drainUnchanged

\* the finally clause of _run: kill and join the live threads, remove
\* cov_dir; cov_dir is not bound when make_pool raised
Finally ==
  /\ drv_pc = "finally"
  /\ drv_pc' = "exited"
  /\ runner' = [t \in all_threads |->
                  IF t \in live_threads
                  THEN [pc |-> "killed", cur |-> runner[t].cur] ELSE runner[t]]
  /\ IF cov_dir = "unbound"
     THEN /\ drv_exc' = Some("UnboundLocalError")
          /\ cleaned' = Some([killed |-> live_threads, rmtree |-> FALSE])
     ELSE /\ cleaned' = Some([killed |-> live_threads, rmtree |-> cov_dir # None])
          /\ UNCHANGED drv_exc
  /\ UNCHANGED <<test_filters, is_train, recipes, gen_tests, expectation_paths,
                 recipe_i, test_i, used_expectations, test_filenames,
                 unused_expectation_files, all_threads, live_threads, cov_dir,
                 description_queue, outcome_queue, test_result, put_log, put_over_unread,
                 executed, carried, removed, pool_coverage, shards_read,
                 main_ret, reportVars>>

\* the exit status of the interpreter when an exception other than
\* SystemExit leaves main
UncaughtExit == 1

\* main: _run has returned or raised; the JSON is dumped when it returned or
\* raised SystemExit, and main returns 0 or lets the exception through
Main ==
  /\ drv_pc = "exited"
  /\ drv_pc' = "main_done"
  /\ main_ret' =
       Some([exit_code |-> IF drv_exc = None THEN 0
                           ELSE IF drv_exc = Some("SystemExit") THEN rp_exit[1]
                           ELSE UncaughtExit,
             dumped |-> drv_exc \in {None, Some("SystemExit")}])
  /\ UNCHANGED <<test_filters, is_train, recipes, gen_tests, expectation_paths,
                 recipe_i, test_i, used_expectations, test_filenames,
                 unused_expectation_files, all_threads, live_threads, cov_dir,
                 description_queue, outcome_queue, runner, test_result,
                 drv_exc, cleaned, put_log, put_over_unread, executed, carried, removed,
                 pool_coverage, shards_read, reportVars>>

(***************************************************************************)
(* PathsClient.find_longest_prefix                                         *)
(***************************************************************************)

\* the characters of the paths, in the order of their code points
Alphabet == <<"-", "/", "a", "b", "c", "x">>

Ord(c) == CHOOSE i \in DOMAIN Alphabet : Alphabet[i] = c

\* s < t for two str
RECURSIVE StrLess(_, _)
StrLess(s, t) ==
  IF t = <<>> THEN FALSE
  ELSE IF s = <<>> THEN TRUE
  ELSE IF Head(s) # Head(t) THEN Ord(Head(s)) < Ord(Head(t))
  ELSE StrLess(Tail(s), Tail(t))

\* sorted(paths_found.items()), the strings of it
RECURSIVE sorted(_)
sorted(S) ==
  IF S = {} THEN <<>>
  ELSE LET least == CHOOSE x \in S : \A y \in S \ {x} : StrLess(x, y)
       IN  <<least>> \o sorted(S \ {least})

\* bisect.bisect_left(a, x) on a sorted a: the number of entries below x
bisect_left(a, x) == Cardinality({i \in DOMAIN a : StrLess(a[i], x)})

startswith(s, prefix) ==
  Len(prefix) <= Len(s) /\ SubSeq(s, 1, Len(prefix)) = prefix

\* find_longest_prefix: the str of the pair it returns, None for (None, None);
\* idx counts from 0 as in the source
find_longest_prefix(strings, target, sep_) ==
  LET idx == bisect_left(strings, target)
  IN  IF idx = Len(strings) THEN None
      ELSE IF target = strings[idx + 1] THEN Some(strings[idx + 1])
      ELSE IF idx > 0 /\ startswith(target, strings[idx] \o <<sep_>>)
           THEN Some(strings[idx])
           ELSE None

\* the resource paths a repo may have, and the paths looked up
KnownPaths ==
  { <<"/", "a">>, <<"/", "a", "-", "b">>, <<"/", "a", "/", "b">>,
    <<"/", "b">>, <<"/", "a", "b">> }

Targets ==
  { <<"/", "a">>, <<"/", "a", "/", "b">>, <<"/", "a", "/", "b", "/", "c">>,
    <<"/", "a", "/", "x">>, <<"/", "a", "b", "/", "c">>, <<"/", "b", "/", "c">>,
    <<"/", "c">>, <<"/", "a", "-", "b", "/", "c">>, <<"/", "a", "x">> }

PrefixStart ==
  /\ fp_result = None
  /\ fp_pc = "start"

PrefixInit ==
  /\ path_strings \in {sorted(S) : S \in (SUBSET KnownPaths) \ {{}}}
  /\ fp_target \in Targets
  /\ PrefixStart

PrefixIdle ==
  /\ path_strings = <<<<"/", "a">>>>
  /\ fp_target = <<"/", "a">>
  /\ PrefixStart

FindLongestPrefix ==
  /\ fp_pc = "start"
  /\ fp_result' = find_longest_prefix(path_strings, fp_target, sep(FALSE))
  /\ fp_pc' = "done"
  /\ UNCHANGED <<path_strings, fp_target>>

(***************************************************************************)
(* exponential_retry                                                       *)
(***************************************************************************)
MaxRetries == 3       \* the largest retries argument

DefaultRetries == 5
DefaultDelay == 1     \* datetime.timedelta(seconds=1)

\* self.retries = retries or 5
self_retries == IF er_retries = 0 THEN DefaultRetries ELSE er_retries

\* self.delay = delay or datetime.timedelta(seconds=1)
self_delay == IF er_delay = 0 THEN DefaultDelay ELSE er_delay

\* self.condition = condition or (lambda e: True)
self_condition(e) == er_condition = None \/ e \in er_condition[1]

Exceptions == {"IOError", "KeyError"}

Returned(v) == [kind |-> "returned", value |-> v]

Raised(e) == [kind |-> "raised", value |-> e]

RetryStart ==
  /\ er_i = 0
  /\ retry_delay = 0
  /\ er_pc = "idle"
  /\ er_attempts = <<>>
  /\ er_sleeps = <<>>
  /\ er_outcome = None

RetryInit ==
  /\ er_retries \in 0..MaxRetries
  /\ er_delay \in 0..2
  /\ er_condition \in {None, Some({"IOError"})}
  /\ RetryStart

RetryIdle ==
  /\ er_retries = 1
  /\ er_delay = 1
  /\ er_condition = None
  /\ RetryStart

\* wrapper is called: retry_delay = self.delay, and the loop starts
WrapperCall ==
  /\ er_pc = "idle"
  /\ retry_delay' = self_delay
  /\ er_i' = 0
  /\ er_pc' = "call"
  /\ UNCHANGED <<er_retries, er_delay, er_condition, er_attempts, er_sleeps,
                 er_outcome>>

\* return f(*args, **kwargs)
CallReturns(v) ==
  /\ er_pc = "call"
  /\ er_attempts' = Append(er_attempts, Returned(v))
  /\ er_outcome' = Some(Returned(v))
  /\ er_pc' = "done"
  /\ UNCHANGED <<er_retries, er_delay, er_condition, er_i, retry_delay,
                 er_sleeps>>

\* (i+1) >= self.retries or not self.condition(e)
GivesUp(i, e) == (i + 1) >= self_retries \/ ~self_condition(e)

\* f raises e: wrapper re-raises, or sleeps, doubles the delay and goes on
\* with the next i
CallRaises(e) ==
  /\ er_pc = "call"
  /\ er_attempts' = Append(er_attempts, Raised(e))
  /\ IF GivesUp(er_i, e)
     THEN /\ er_outcome' = Some(Raised(e))
          /\ er_pc' = "done"
          /\ UNCHANGED <<er_i, retry_delay, er_sleeps>>
     ELSE /\ er_sleeps' = Append(er_sleeps, retry_delay)
          /\ retry_delay' = retry_delay * 2
          /\ er_i' = er_i + 1
          /\ UNCHANGED <<er_outcome, er_pc>>
  /\ UNCHANGED <<er_retries, er_delay, er_condition>>

\* Each subsystem is explored from the initial state of the whole engine,
\* with the other subsystems left alone.
\* a runner that is not waiting on a step with a timeout
WaitIdle ==
  /\ WaitInit
  /\ timeout = None
  /\ gid = (IF _MSWINDOWS THEN None ELSE Some(1))

InitContext ==
  CtxInit /\ DeferInit /\ WaitIdle /\ ~_MSWINDOWS /\ ResolveIdle /\ MkIdle /\ RunIdle
  /\ DriverIdle /\ ReportIdle /\ PrefixIdle /\ RetryIdle

InitDefer == InitContext

Init == CtxInit /\ DeferInit /\ WaitInit /\ ResolveIdle /\ MkIdle /\ RunIdle
  /\ DriverIdle /\ ReportIdle /\ PrefixIdle /\ RetryIdle

InitResolve == CtxInit /\ DeferInit /\ WaitIdle /\ ResolveInit /\ MkIdle /\ RunIdle
  /\ DriverIdle /\ ReportIdle /\ PrefixIdle /\ RetryIdle

InitMk == CtxInit /\ DeferInit /\ WaitIdle /\ ResolveIdle /\ MkInit /\ RunIdle
  /\ DriverIdle /\ ReportIdle /\ PrefixIdle /\ RetryIdle

InitRun ==
  CtxInit /\ DeferInit /\ WaitIdle /\ ~_MSWINDOWS /\ ResolveIdle /\ MkIdle /\ RunInit
  /\ DriverIdle /\ ReportIdle /\ PrefixIdle /\ RetryIdle

CtxOnly == UNCHANGED <<prefixVars, retryVars, deferVars, waitVars, resolveVars, mkVars, runVars,
  driverVars, reportVars>>

DeferOnly == UNCHANGED <<prefixVars, retryVars, ctxVars, waitVars, resolveVars, mkVars, runVars,
  driverVars, reportVars>>

WaitOnly == UNCHANGED <<prefixVars, retryVars, ctxVars, deferVars, resolveVars, mkVars, runVars,
  driverVars, reportVars>>

ResolveOnly == UNCHANGED <<prefixVars, retryVars, ctxVars, deferVars, waitVars, mkVars, runVars,
  driverVars, reportVars>>

MkOnly == UNCHANGED <<prefixVars, retryVars, ctxVars, deferVars, waitVars, resolveVars, runVars,
  driverVars, reportVars>>

RunOnly == UNCHANGED <<prefixVars, retryVars, ctxVars, deferVars, waitVars, resolveVars, mkVars,
  driverVars, reportVars>>

NextContext ==
  \/ \E a \in ContextArgs :
        ContextEnter(a.cwd, a.env_prefixes, a.env_suffixes, a.env, a.infra_steps)
        /\ CtxOnly
  \/ \E a \in ContextArgs :
        ContextReject(a.cwd, a.env_prefixes, a.env_suffixes, a.env, a.infra_steps)
        /\ CtxOnly
  \/ BodyRaise /\ CtxOnly
  \/ BodyCatch /\ CtxOnly
  \/ ContextExit /\ CtxOnly

NextDefer ==
  \/ CallInfer /\ DeferOnly
  \/ CallComposite /\ DeferOnly
  \/ Return /\ DeferOnly
  \/ \E er \in FailedSteps : RaiseStepFailure(er) /\ DeferOnly
  \/ RaiseOther /\ DeferOnly
  \/ \E f \in DOMAIN excs : GetResult(f) /\ DeferOnly
  \/ Catch /\ DeferOnly
  \/ Unwind /\ DeferOnly
  \/ EnterDefer /\ DeferOnly
  \/ ExitDefer /\ DeferOnly

NextWait ==
  \/ \E rc \in {0, 1, -SIGTERM, -SIGKILL} : ProcExit(rc) /\ WaitOnly
  \/ WaitExited /\ WaitOnly
  \/ WaitTimedOut /\ WaitOnly
  \/ KillWaitTick /\ WaitOnly
  \/ KillWait30Done /\ WaitOnly
  \/ KillDone /\ WaitOnly
  \/ Cancel /\ WaitOnly

SpecContext == InitContext /\ [][NextContext]_vars

NextScope ==
  \/ \E a \in ScopeArgs :
        ContextEnter(a.cwd, a.env_prefixes, a.env_suffixes, a.env, a.infra_steps)
        /\ CtxOnly
  \/ \E a \in ScopeArgs :
        ContextReject(a.cwd, a.env_prefixes, a.env_suffixes, a.env, a.infra_steps)
        /\ CtxOnly
  \/ BodyRaise /\ CtxOnly
  \/ BodyCatch /\ CtxOnly
  \/ ContextExit /\ CtxOnly

SpecScope == InitContext /\ [][NextScope]_vars

SpecDefer == InitDefer /\ [][NextDefer]_vars

SpecWait == Init /\ [][NextWait]_vars

NextResolve ==
  \/ ResolveCmd0 /\ ResolveOnly

SpecResolve == InitResolve /\ [][NextResolve]_vars

NextMk ==
  \/ MkProcOpenFails /\ MkOnly
  \/ \E p \in StepPaths : MkProcBegin(p) /\ MkOnly
  \/ \E raised \in BOOLEAN : PopenEnds(raised) /\ MkOnly

SpecMk == InitMk /\ [][NextMk]_vars

NextRun ==
  \/ \E n \in pipes : ChildWrite(n) /\ RunOnly
  \/ \E rc \in {0, 1} : ChildExit(rc) /\ RunOnly
  \/ \E n \in pipes : CopyLine(n) /\ RunOnly
  \/ \E n \in pipes : CopyEOF(n) /\ RunOnly
  \/ WaitProcReturns /\ RunOnly
  \/ ReapWorkers /\ RunOnly
  \/ \E n \in pipes, took \in CloseTimes :
       \E result \in CloseResults(took) : SafeClose(n, took, result) /\ RunOnly
  \/ RunReturns /\ RunOnly

SpecRun == InitRun /\ [][NextRun]_vars

InitDriver ==
  CtxInit /\ DeferInit /\ WaitIdle /\ ~_MSWINDOWS /\ ResolveIdle /\ MkIdle /\ RunIdle
  /\ DriverInit /\ DriverReporter /\ PrefixIdle /\ RetryIdle

DriverOnly ==
  UNCHANGED <<prefixVars, retryVars, ctxVars, deferVars, waitVars, resolveVars, mkVars, runVars>>

InitReport ==
  CtxInit /\ DeferInit /\ WaitIdle /\ ~_MSWINDOWS /\ ResolveIdle /\ MkIdle /\ RunIdle
  /\ DriverIdle /\ ReportInit /\ PrefixIdle /\ RetryIdle

ReportOnly ==
  UNCHANGED <<prefixVars, retryVars, ctxVars, deferVars, waitVars, resolveVars, mkVars, runVars,
              driverVars>>

NextReport ==
  \/ (\E outcome_msg \in OutcomeValues : ShortReport(outcome_msg)) /\ ReportOnly
  \/ (\E cov \in BOOLEAN, measured \in BOOLEAN, percent \in CoveragePercents,
          uncovered_modules \in UncoveredModules,
          unused_files \in { {}, {<<"r1", "z.json">>} } :
        FinalReportCall(cov, measured, percent, uncovered_modules,
                        unused_files)) /\ ReportOnly

SpecReport == InitReport /\ [][NextReport]_vars

NextDriver ==
  \/ (\E ok \in BOOLEAN : MakePool(ok)) /\ DriverOnly
  \/ PushRecipe /\ DriverOnly
  \/ GenTest /\ DriverOnly
  \/ PushResume /\ DriverOnly
  \/ PushTestsReturn /\ DriverOnly
  \/ PutPoisonPills /\ DriverOnly
  \/ (\E t \in all_threads : RunnerGet(t)) /\ DriverOnly
  \/ (\E t \in all_threads, kind \in OutcomeKinds : RunnerOutcome(t, kind))
       /\ DriverOnly
  \/ DrainBlock /\ DriverOnly
  \/ Drain /\ DriverOnly
  \/ (\E c \in CoverageCases :
       FinalReport(c.measured, c.percent, c.uncovered_modules)) /\ DriverOnly
  \/ Finally /\ DriverOnly
  \/ Main /\ DriverOnly

SpecDriver == InitDriver /\ [][NextDriver]_vars

\* the driver without filters, in run mode, with no expectation file on disk
InitPrefix ==
  CtxInit /\ DeferInit /\ WaitIdle /\ ~_MSWINDOWS /\ ResolveIdle /\ MkIdle /\ RunIdle
  /\ DriverIdle /\ ReportIdle /\ PrefixInit /\ RetryIdle

PrefixOnly == UNCHANGED <<retryVars, ctxVars, deferVars, waitVars, resolveVars,
  mkVars, runVars, driverVars, reportVars>>

NextPrefix == FindLongestPrefix /\ PrefixOnly

SpecPrefix == InitPrefix /\ [][NextPrefix]_vars

InitRetry ==
  CtxInit /\ DeferInit /\ WaitIdle /\ ~_MSWINDOWS /\ ResolveIdle /\ MkIdle /\ RunIdle
  /\ DriverIdle /\ ReportIdle /\ PrefixIdle /\ RetryInit

RetryOnly == UNCHANGED <<prefixVars, ctxVars, deferVars, waitVars, resolveVars,
  mkVars, runVars, driverVars, reportVars>>

NextRetry ==
  \/ WrapperCall /\ RetryOnly
  \/ (\E v \in {"v1", "v2"} : CallReturns(v)) /\ RetryOnly
  \/ (\E e \in Exceptions : CallRaises(e)) /\ RetryOnly

SpecRetry == InitRetry /\ [][NextRetry]_vars

InitDriverLive ==
  /\ InitDriver
  /\ test_filters = <<>>
  /\ ~is_train
  /\ \A r \in Recipes : expectation_paths[r] = {}

\* the driver greenlet runs on whenever it has something to do: it takes
\* the item outcome_queue.get() can return, and makes the final report once
\* the loop has ended
SpecDriverLive ==
  /\ InitDriverLive
  /\ [][NextDriver]_vars
  /\ WF_vars(Drain /\ DriverOnly)
  /\ WF_vars((\E c \in CoverageCases :
                FinalReport(c.measured, c.percent, c.uncovered_modules))
             /\ DriverOnly)

(***************************************************************************)
(* Properties                                                              *)
(***************************************************************************)

\* C1: after a scope is left, by the end of its body or by an exception
\* raised in it, the five context stacks are what they were just before the
\* scope was entered.
C1_ScopeExitRestoresStacks ==
  ctx_last.op = "exit" => Stacks = ctx_last.ref

\* The same, for runs in which no api.context call has been rejected.
ExitRestoresWithoutReject ==
  (ctx_last.op = "exit" /\ rejects = 0) => Stacks = ctx_last.ref

\* C2: when entering a scope fails with ValueError, the five context stacks
\* are what they were before the call, whatever else was passed with env.
C2_RejectedPushLeavesStacks ==
  ctx_last.op = "reject" => Stacks = ctx_last.ref

\* A StepFailure has just left a wrapped call that was made in a defer scope.
FailureLeftStepLikeCall ==
  /\ defer_last.op = "unwind"
  /\ defer_last.frame.kind \in Wrappers
  /\ defer_last.frame.pushed
  /\ defer_last.exc.kind = "StepFailure"

\* C3: a StepFailure raised by a step-like call in a defer scope does not
\* unwind the scope: it is appended to the scope's AggregatedResult, the
\* call returns a DeferredResult, and the scope body goes on (nothing
\* propagates, the scope is still the innermost frame and its aggregate the
\* active one).
C3_FailureCapturedNotUnwound ==
  FailureLeftStepLikeCall =>
    LET a == defer_last.frame.agg[1]
    IN  /\ exc = NoExc
        /\ defer_last.deferred
        /\ aggs[a].failures # <<>>
        /\ Top(aggs[a].failures) = defer_last.exc.id
        /\ frames # <<>>
        /\ Top(frames).kind = "defer_results"
        /\ Top(frames).agg = Some(a)
        /\ Top(_aggregated_result) = Some(a)

C3_Witness ==
  /\ FailureLeftStepLikeCall
  /\ defer_last.frame.kind = "infer_composite_step"
  /\ Len(aggs[defer_last.frame.agg[1]].failures) = 2
  /\ exc = NoExc

\* The exception now propagating is the AggregatedStepFailure built from
\* aggregate a, carrying the count of failures, the count of all results and
\* the failures in capture order.
AggregateRaised(a) ==
  /\ exc.kind = "StepFailure"
  /\ exc.id = Len(excs)
  /\ excs[exc.id].cls = "AggregatedStepFailure"
  /\ excs[exc.id].result = a
  /\ excs[exc.id].reason =
       [failed |-> Len(aggs[a].failures),
        total |-> Len(aggs[a].successes) + Len(aggs[a].failures),
        listed |-> aggs[a].failures]
  /\ Cardinality({i \in DOMAIN excs : excs[i].cls = "AggregatedStepFailure"
                                       /\ excs[i].result = a}) = 1

\* C4 as stated: however a defer scope is left, an AggregatedStepFailure is
\* raised if and only if a failure was captured in it.
C4_AggregateRaisedOnEveryExit ==
  /\ defer_last.op = "exit_defer" =>
       IF aggs[defer_last.agg].failures # <<>>
       THEN AggregateRaised(defer_last.agg) ELSE exc = NoExc
  /\ (defer_last.op = "unwind" /\ defer_last.frame.kind = "defer_results") =>
       (aggs[defer_last.frame.agg[1]].failures # <<>>
          => AggregateRaised(defer_last.frame.agg[1]))

\* C4 (amended): when the body of a defer scope ends without raising, one
\* AggregatedStepFailure is raised if and only if a failure was captured in
\* the scope; its reason counts the failures out of all results and lists
\* the failures in capture order; with no failure the scope falls through.
C4_AggregateRaisedAtBodyEnd ==
  defer_last.op = "exit_defer" =>
    IF aggs[defer_last.agg].failures # <<>>
    THEN AggregateRaised(defer_last.agg) ELSE exc = NoExc

C4_Witness ==
  /\ defer_last.op = "exit_defer"
  /\ Len(aggs[defer_last.agg].failures) = 1
  /\ Len(aggs[defer_last.agg].successes) = 1
  /\ AggregateRaised(defer_last.agg)

\* C5: a call to an infer_composite_step function in a defer scope is
\* recorded as a DeferredResult exactly when the function executed a step or
\* raised a StepFailure during the call.
C5_DeferredIffStepLike ==
  (/\ defer_last.op \in {"return", "unwind"}
   /\ defer_last.frame.kind = "infer_composite_step"
   /\ defer_last.frame.pushed
   /\ defer_last.op = "unwind" => defer_last.exc.kind = "StepFailure")
  => (defer_last.deferred <=> defer_last.frame.acted)

\* how often failure f is in the failures of some AggregatedResult
Recorded(f) ==
  Cardinality(UNION {{<<a, i>> : i \in {j \in DOMAIN aggs[a].failures :
                                            aggs[a].failures[j] = f}} :
                     a \in DOMAIN aggs})

\* C6: each StepFailure is in the failures of at most one AggregatedResult,
\* and at most once.
C6_FailureRecordedAtMostOnce ==
  \A f \in DOMAIN excs : Recorded(f) <= 1

\* C7: defer_results called while an aggregate is active raises
\* AssertionError and leaves the defer context stacks and the aggregate as
\* they were.
C7_NestedDeferRejected ==
  (defer_last.op = "defer_results" /\ defer_last.active) =>
    /\ exc.kind = "AssertionError"
    /\ DeferSnap = defer_last.before

C7_Witness ==
  /\ defer_last.op = "defer_results"
  /\ defer_last.active
  /\ aggs[Top(_aggregated_result)[1]].failures # <<>>

\* C8: the aggregate failure's had_timeout is False when no captured failure
\* timed out, and not False when one did.
C8_AggregateHadTimeout ==
  (defer_last.op = "exit_defer" /\ AggregateRaised(defer_last.agg)) =>
    LET kids == Range(aggs[defer_last.agg].failures)
        any == \E f \in kids : had_timeout(excs[f]) = "True"
    IN  /\ ~any => had_timeout(excs[exc.id]) = "False"
        /\ any => had_timeout(excs[exc.id]) # "False"

\* C9: once the timeout has expired with the process still running, kill is
\* invoked and the returned ExecutionResult has had_timeout, whatever
\* happens later; when the wait ends because the process exited, kill is not
\* invoked and had_timeout is false.
C9_TimeoutKillsAndFlags ==
  /\ (outcome = "returned" /\ wp_hist.timed_out) =>
       (wp_hist.kills > 0 /\ ret.had_timeout)
  /\ (outcome = "returned" /\ ~wp_hist.timed_out /\ wp_hist.cancels = 0) =>
       (wp_hist.kills = 0 /\ ~ret.had_timeout)

\* C10: a cancellation at any suspension point makes _wait_proc invoke kill
\* and return an ExecutionResult with was_cancelled and the retcode that
\* kill returned.
C10_CancelKillsAndFlags ==
  (wp_pc = "done" /\ wp_hist.cancels > 0) =>
    /\ outcome = "returned"
    /\ wp_hist.kills > 0
    /\ ret.was_cancelled
    /\ ret.retcode = kill_ret

\* the ExecutionResult came from a completed _kill
ReturnedFromKill == outcome = "returned" /\ wp_hist.kills > 0

\* C11: every ExecutionResult that _wait_proc returns, after a normal exit,
\* a timeout or a cancellation, has a retcode that is not None.
C11_ReturnedRetcodeNotNone ==
  outcome = "returned" => ret.retcode # None

C11_Witness ==
  /\ outcome = "returned"
  /\ ret.had_timeout
  /\ ret.retcode = Some(-SIGKILL)

\* C12: on POSIX every SIGKILL sent to the group directly follows the
\* SIGTERM of the same _kill call, the wait between them lasts at most 30 s,
\* and _kill returns only after the direct child has exited, with the
\* child's return code, having sent SIGTERM and then SIGKILL.
C12_PosixKillOrder ==
  ~_MSWINDOWS =>
    /\ \A i \in DOMAIN signals :
         /\ signals[i].fn = "killpg"
         /\ signals[i].sig = SIGKILL =>
              (i > 1 /\ signals[i - 1].sig = SIGTERM)
    /\ waited <= KillTimeout
    /\ ReturnedFromKill =>
         /\ returncode # None
         /\ kill_ret = returncode
         /\ Len(signals) >= 2
         /\ Top(signals).sig = SIGKILL

C12_Witness ==
  /\ ~_MSWINDOWS
  /\ ReturnedFromKill
  /\ Top(signals).seen = None
  /\ waited = KillTimeout

\* C13: on Windows TerminateProcess directly follows the CTRL_BREAK_EVENT of
\* the same _kill call and is called only when the child had not exited by
\* the end of the wait, which lasts at most 30 s; _kill returns the direct
\* child's return code.
C13_WindowsKillOrder ==
  _MSWINDOWS =>
    /\ \A i \in DOMAIN signals :
         /\ signals[i].fn \in {"send_signal", "terminate"}
         /\ signals[i].fn = "terminate" =>
              /\ i > 1
              /\ signals[i - 1].fn = "send_signal"
              /\ signals[i - 1].sig = CTRL_BREAK_EVENT
              /\ signals[i].seen = None
    /\ waited <= KillTimeout
    /\ ReturnedFromKill =>
         /\ returncode # None
         /\ kill_ret = returncode

C13_Witness ==
  /\ _MSWINDOWS
  /\ ReturnedFromKill
  /\ Top(signals).fn = "terminate"
  /\ waited = KillTimeout

\* the base paths of the claim, in order: cmd0 itself if absolute, else cwd
\* joined with cmd0 if cmd0 contains the path separator, else each PATH
\* entry joined with cmd0
BasePaths ==
  IF isabs(_MSWINDOWS, rc_cmd0) THEN <<rc_cmd0>>
  ELSE IF \E i \in DOMAIN rc_cmd0 : rc_cmd0[i] = sep(_MSWINDOWS)
  THEN <<join(_MSWINDOWS, rc_cwd, rc_cmd0)>>
  ELSE [i \in DOMAIN rc_paths |-> join(_MSWINDOWS, rc_paths[i], rc_cmd0)]

\* the candidates of one base path: itself if it has an extension, else
\* with .exe then .bat on Windows and the exact name on POSIX
WithExtensions(b) ==
  IF splitext1(_MSWINDOWS, b) # <<>> THEN <<b>>
  ELSE IF _MSWINDOWS THEN <<b \o <<".", "exe">>, b \o <<".", "bat">>>>
  ELSE <<b>>

RECURSIVE CandidatesFrom(_)
CandidatesFrom(i) ==
  IF i > Len(BasePaths) THEN <<>>
  ELSE WithExtensions(BasePaths[i]) \o CandidatesFrom(i + 1)

Candidates == CandidatesFrom(1)

\* a regular file with execute permission
Qualifies(p) == p \in DOMAIN rc_fs /\ rc_fs[p] = "xfile"

Qualifying == {i \in DOMAIN Candidates : Qualifies(Candidates[i])}

\* C14: resolve_cmd0 returns the first candidate, in the order of the
\* claim, that is a regular file with execute permission, and None exactly
\* when no candidate is one.
C14_FirstQualifyingCandidate ==
  rc_pc = "done" =>
    IF Qualifying = {} THEN resolved = None
    ELSE resolved =
           Some(Candidates[CHOOSE i \in Qualifying : \A j \in Qualifying : i <= j])

C14_Witness ==
  /\ rc_pc = "done"
  /\ _MSWINDOWS
  /\ Cardinality(Qualifying) = 2
  /\ Len(Candidates) = 4
  /\ resolved # None
  /\ resolved # Some(Candidates[1])

\* C15: the argv[0] that resolve_cmd0 hands to the spawn is an absolute
\* path that is a regular file with execute permission, for every cmd0, cwd
\* and PATH list.
C15_ResolvedAbsoluteExecutable ==
  (rc_pc = "done" /\ resolved # None) =>
    /\ isabs(_MSWINDOWS, resolved[1])
    /\ Qualifies(resolved[1])

\* C16: a step whose env defines PATH is spawned with that PATH installed
\* process-wide, and whenever no _mk_proc is running, after calls that
\* returned or raised, the process-wide PATH is what it was before the first
\* call.
C16_PathSwappedAndRestored ==
  /\ \A i \in DOMAIN spawns :
       (spawns[i].lookup # None /\ spawns[i].env_PATH # None) =>
         spawns[i].lookup = spawns[i].env_PATH
  /\ mk_pc = "idle" => os_environ_PATH = path0

C16_Witness ==
  /\ mk_pc = "idle"
  /\ Len(spawns) = 3
  /\ spawns[1].result = "returned" /\ spawns[1].env_PATH = Some("/a/bin")
  /\ spawns[2].result = "raised" /\ spawns[2].env_PATH = Some("/b/bin")
  /\ spawns[3].result = "returned" /\ spawns[3].env_PATH = None
  /\ path0 = "/usr/bin"

\* the lines of an output: the tokens between newlines, and what follows
\* the last newline if anything does
RECURSIVE SplitLines(_)
SplitLines(out) ==
  IF out = <<>> THEN <<>>
  ELSE LET k == FirstNewline(out)
       IN  IF k = 0 THEN <<out>>
           ELSE <<SubSeq(out, 1, k - 1)>> \o SplitLines(SubSeq(out, k + 1, Len(out)))

IsPrefix(s, t) == Len(s) <= Len(t) /\ s = SubSeq(t, 1, Len(s))

\* The lines in a sink are, in order, the first lines the child wrote to
\* that pipe.
SinkIsPrefixOfOutput ==
  \A n \in pipes : IsPrefix(sink[n], SplitLines(SubSeq(script[n], 1, wrote[n])))

\* C17: when run returns, every line the child wrote to a pipe before
\* exiting is in that pipe's sink, in the order written, a final line
\* without newline included, as the last one.
C17_AllLinesDelivered ==
  run_pc = "returned" => \A n \in pipes : sink[n] = SplitLines(script[n])

\* C18: a close that blocks for more than 100 ms is logged as leaked and
\* grows the pool maximum by exactly 2, a close that succeeds leaves the
\* maximum as it was, and run returns the ExecutionResult of the wait.
C18_LeakedCloseGrowsPool ==
  /\ \A n \in pipes :
       closes[n] # None =>
         /\ closes[n][1].took > CloseTimeoutMs =>
              /\ <<n, "  LEAKED: timeout closing handle">> \in debug_log
              /\ closes[n][1].after = closes[n][1].before + 2
         /\ closes[n][1].result = "closed" =>
              closes[n][1].after = closes[n][1].before
  /\ run_pc = "returned" =>
       /\ run_ret # None
       /\ run_ret[1].retcode = child
       /\ child # None
       /\ \A n \in pipes : closes[n] # None

C18_Witness ==
  /\ run_pc = "returned"
  /\ pipes = {"stdout", "stderr"}
  /\ closes["stdout"][1].result = "Timeout"
  /\ closes["stderr"][1].result = "closed"
  /\ threadpool_maxsize = closes["stderr"][1].before + 2
  /\ run_ret[1].retcode = Some(1)

\* ---- the test driver ----

\* how often x occurs in the sequence s
Count(s, x) == Cardinality({i \in DOMAIN s : s[i] = x})

\* the descriptions of the test cases the gen_tests of the recipes emit
EmittedTests ==
  UNION { { Description(r, gen_tests[r].tests[i].name) :
              i \in DOMAIN gen_tests[r].tests } : r \in Recipes }

\* the test cases of every recipe have unique names and expectation files
UniqueTests ==
  \A r \in Recipes :
    \A i, j \in DOMAIN gen_tests[r].tests :
      i # j => /\ gen_tests[r].tests[i].name # gen_tests[r].tests[j].name
               /\ gen_tests[r].tests[i].expect_file #
                    gen_tests[r].tests[j].expect_file

\* _push_tests has returned and _run has not left its try block
PushTestsReturned == drv_pc \in {"poison", "drain", "get"}

\* the `while live_threads:` loop of _run has ended
DrainOver == drv_pc = "drain" /\ live_threads = {}

\* C19: with an empty filter and unique test names and expectation files,
\* no emitted test is ever pushed or executed twice, every emitted test has
\* been pushed exactly once when _push_tests returns, and has been executed
\* exactly once when the driver has seen every worker finish.
C19_EveryTestPushedAndExecutedOnce ==
  (test_filters = <<>> /\ UniqueTests) =>
    /\ \A d \in EmittedTests : Count(put_log, d) <= 1 /\ Count(executed, d) <= 1
    /\ PushTestsReturned => \A d \in EmittedTests : Count(put_log, d) = 1
    /\ DrainOver => \A d \in EmittedTests : Count(executed, d) = 1

C19_Witness ==
  /\ test_filters = <<>>
  /\ UniqueTests
  /\ DrainOver
  /\ Cardinality(EmittedTests) = 3
  /\ Len(executed) = 3
  /\ Cardinality(all_threads) = 2

\* C20: the driver puts no poison pill before _push_tests has returned and
\* then exactly one per worker; no description is ever put after a poison
\* pill; a worker that has ended on its pill leaves no description on the
\* queue and none to come.
C20_PoisonAfterEveryDescription ==
  /\ Count(put_log, None) \in {0, Cardinality(all_threads)}
  /\ Count(put_log, None) # 0 =>
       drv_pc \notin {"make_pool", "push", "gen", "sleep", "poison"}
  /\ drv_pc = "drain" => Count(put_log, None) = Cardinality(all_threads)
  /\ \A i, j \in DOMAIN put_log :
       (i < j /\ put_log[i] = None) => put_log[j] = None
  /\ \A i, j \in DOMAIN description_queue :
       (i < j /\ description_queue[i] = None) => description_queue[j] = None
  /\ \A t \in all_threads :
       runner[t].pc = "done" =>
         /\ drv_pc \notin {"make_pool", "push", "gen", "sleep", "poison"}
         /\ \A i \in DOMAIN description_queue : description_queue[i] = None
         /\ \A d \in Range(put_log) \ {None} :
              d \in Range(executed) \/
              \E u \in all_threads : runner[u].cur = Some(d)

C20_Witness ==
  /\ Cardinality(all_threads) = 2
  /\ \E t \in all_threads : runner[t].pc = "done"
  /\ \E t \in all_threads : runner[t].pc = "run"
  /\ Count(put_log, None) = 2
  /\ Len(put_log) = 5

\* ---- the drain loop ----

IsSentinel(e) == e.kind = "RunnerThread"

IsOutcome(e) == e.kind = "Outcome"

\* what the driver has taken from outcome_queue, in arrival order
Drained == SubSeq(carried, 1, Len(carried) - Len(outcome_queue))

Msgs(s) == [i \in DOMAIN s |-> s[i].msg]

DrainedOutcomes == Msgs(SelectSeq(Drained, IsOutcome))

DrainedThreads == {e.thread : e \in {x \in Range(Drained) : IsSentinel(x)}}

\* the index of the first message of s with an internal_error, or Len(s) + 1
FirstInternalError(s) ==
  IF \E i \in DOMAIN s : s[i].internal_error
  THEN CHOOSE i \in DOMAIN s :
         s[i].internal_error /\ \A j \in 1..(i - 1) : ~s[j].internal_error
  ELSE Len(s) + 1

\* the line or glyph the reporter prints for each message of s
SummaryLines(s) ==
  [i \in DOMAIN s |->
     _print_summary_info(_verbose, _use_emoji, s[i].test_name, s[i].test_result)]

\* _run has left its `while live_threads:` loop, one way or the other
LoopLeft ==
  /\ None \in Range(put_log)
  /\ \/ drv_pc \in {"finally", "exited", "main_done"}
     \/ DrainOver

AllSentinelsPushed ==
  \A t \in all_threads : \E i \in DOMAIN carried : carried[i] = ThreadDone(t)

NoInternalError ==
  \A i \in DOMAIN carried : ~carried[i].msg.internal_error

\* C21 as stated: the loop is left only when the sentinel of every worker
\* has been received.
C21_LoopLeftOnlyWhenAllReceived ==
  LoopLeft => live_threads = {}

C21_DrainSafety ==
  /\ pool_coverage # None => live_threads = all_threads \ DrainedThreads
  /\ test_result.test_results = DrainedOutcomes
  /\ SelectSeq(stdout, IsTestLine) =
       SummaryLines(SubSeq(DrainedOutcomes, 1,
                           FirstInternalError(DrainedOutcomes) - 1))
  /\ LoopLeft =>
       \/ live_threads = {} /\ DrainedThreads = all_threads
       \/ /\ DrainedOutcomes # <<>>
          /\ DrainedOutcomes[Len(DrainedOutcomes)].internal_error
          /\ rp_final = None

\* C21 (amended): each sentinel received removes its worker from
\* live_threads; every outcome received is merged, and reported in arrival
\* order up to the first one with an internal_error; the loop is left when
\* the sentinels of all workers have been received, or at once on an
\* outcome with an internal_error; when every worker has pushed its sentinel
\* and no outcome has an internal_error, the driver reaches the final report.
C21_DrainLoop ==
  /\ []C21_DrainSafety
  /\ (AllSentinelsPushed /\ NoInternalError) ~> (rp_final # None)

C21_Witness ==
  /\ rp_final # None
  /\ Cardinality(all_threads) = 2
  /\ DrainedThreads = all_threads
  /\ Len(DrainedOutcomes) = 3
  /\ Len(SelectSeq(stdout, IsTestLine)) = 3

\* ---- the outcome channel ----

IsDescription(d) == d # None

\* every RunnerThread has taken its poison pill and ended
AllWorkersFinished == \A t \in all_threads : runner[t].pc = "done"

\* C22: when every worker has finished, outcome_queue has carried one
\* Outcome for every description put on description_queue and one sentinel
\* for every worker, and nothing of a worker follows its sentinel.
C22_OutcomeChannelCarries ==
  AllWorkersFinished =>
    /\ Len(SelectSeq(carried, IsOutcome)) = Len(SelectSeq(put_log, IsDescription))
    /\ Len(SelectSeq(carried, IsSentinel)) = Cardinality(all_threads)
    /\ \A t \in all_threads : Count(carried, ThreadDone(t)) = 1
    /\ \A i, j \in DOMAIN carried :
         (i < j /\ IsSentinel(carried[i])) => carried[j].thread # carried[i].thread

C22_Witness ==
  /\ AllWorkersFinished
  /\ Cardinality(all_threads) = 2
  /\ Len(SelectSeq(put_log, IsDescription)) = 3
  /\ \E i \in DOMAIN carried :
       IsSentinel(carried[i]) /\ i < Len(carried) /\ IsOutcome(carried[i + 1])

\* ---- duplicate tests ----

\* the gen_tests of recipe r emits two test cases with the same expectation
\* file (the same name twice, or two names that map to one file)
EmitsDuplicate(r) ==
  \E i, j \in DOMAIN gen_tests[r].tests :
    i < j /\ gen_tests[r].tests[i].expect_file = gen_tests[r].tests[j].expect_file

\* the descriptions of the emitted tests the filters let through
SelectedTests ==
  UNION { { Description(r, gen_tests[r].tests[i].name) :
              i \in { k \in DOMAIN gen_tests[r].tests :
                        test_filter(test_filters,
                                    FullName(r, gen_tests[r].tests[k].name)) } } :
          r \in { q \in Recipes : recipe_filter(test_filters, <<q>>) } }

\* C23: when a processed recipe emits a duplicate, and nothing else stops
\* the run (the pool was made, no gen_tests raises, no outcome has an
\* internal_error), the command ends with a bad_test result reported, the
\* selected tests executed and the final report made.
C23_DuplicateIsBadTestNotAbort ==
  ( /\ drv_pc = "main_done"
    /\ pool_coverage # None
    /\ NoInternalError
    /\ \A r \in Recipes : ~gen_tests[r].raises
    /\ \E r \in Recipes : recipe_filter(test_filters, <<r>>) /\ EmitsDuplicate(r) )
  => /\ rp_final # None
     /\ \E i \in DOMAIN test_result.test_results :
          "bad_test" \in test_result.test_results[i].test_result
     /\ SelectedTests \subseteq Range(executed)

\* ---- expectation files ----

\* the expectation files recipe r had when the command started
ExistingPaths(r) ==
  expectation_paths[r] \cup { p[2] : p \in { q \in removed : q[1] = r } }

EmittedFiles(r) ==
  { gen_tests[r].tests[i].expect_file : i \in DOMAIN gen_tests[r].tests }

\* for the recipes the recipe filter lets through, the existing expectation
\* files no emitted test maps to
ExpectedUnused ==
  UNION { { <<r, f>> : f \in ExistingPaths(r) \ EmittedFiles(r) } :
          r \in { q \in Recipes : recipe_filter(test_filters, <<q>>) } }

\* C24: until _push_tests returns nothing is deleted or reported; once it
\* has, run mode has reported exactly the unused files of the processed
\* recipes and deleted none, and a final report then fails when there is
\* one; train mode has deleted exactly those files and reports none.
C24_UnusedExpectationFiles ==
  IF None \in Range(put_log) \/ drv_pc = "poison"
  THEN IF is_train
       THEN /\ removed = ExpectedUnused
            /\ test_result.unused_expectation_files = {}
            /\ rp_final # None => rp_final[1].unused_expectation_files = {}
       ELSE /\ removed = {}
            /\ test_result.unused_expectation_files = ExpectedUnused
            /\ rp_final # None =>
                 /\ rp_final[1].unused_expectation_files = ExpectedUnused
                 /\ ExpectedUnused # {} => rp_exit = Some(1)
  ELSE removed = {} /\ test_result.unused_expectation_files = {}

C24_Witness ==
  /\ is_train
  /\ Cardinality(removed) = 3
  /\ rp_final # None
  /\ \E r \in Recipes : EmittedFiles(r) \cap ExistingPaths(r) # {}

\* ---- the final report ----

FatalCoverageLine == [fatal |-> "Insufficient coverage"]

\* a failure condition of final_report other than coverage
OtherFailure ==
  \/ _long_err_buf # <<>>
  \/ rp_final[1].uncovered_modules # {}
  \/ rp_final[1].unused_expectation_files # {}

\* C25: a final report on coverage data with at least one measured file
\* fails the run when the coverage is below 100% and then prints the fatal
\* line; at 100% it prints none and fails only for another reason.
C25_CoverageGate ==
  (rp_final # None /\ rp_final[1].cov /\ rp_final[1].measured) =>
    /\ coverage_percent = rp_final[1].percent
    /\ coverage_percent < 100 * 10 =>
         rp_exit = Some(1) /\ FatalCoverageLine \in Range(stdout)
    /\ coverage_percent = 100 * 10 =>
         /\ FatalCoverageLine \notin Range(stdout)
         /\ rp_exit # None <=> OtherFailure

C25_Witness ==
  /\ rp_final # None
  /\ rp_final[1].cov
  /\ rp_final[1].measured
  /\ coverage_percent = 999
  /\ ~OtherFailure
  /\ rp_exit = Some(1)

\* C26: the pool is told to collect coverage exactly when there are no
\* filters; the coverage shards are read, and coverage data handed to the
\* final report, exactly then; with a filter no run fails for coverage.
C26_CoverageIffNoFilters ==
  /\ pool_coverage # None => pool_coverage = Some(test_filters = <<>>)
  /\ shards_read # {} => test_filters = <<>>
  /\ rp_final # None =>
       /\ rp_final[1].cov <=> test_filters = <<>>
       /\ shards_read = (IF test_filters = <<>> THEN all_threads ELSE {})
  /\ test_filters # <<>> => FatalCoverageLine \notin Range(stdout)

C26_Witness ==
  /\ test_filters # <<>>
  /\ pool_coverage = Some(FALSE)
  /\ rp_final # None
  /\ rp_final[1].measured
  /\ rp_final[1].percent = 999
  /\ rp_exit = None
  /\ reported # <<>>

\* the fields of a test result that count as a failure
FailureFields == {"internal_error", "bad_test", "crash_mismatch", "check", "diff"}

\* C27: final_report leaves with a non-zero exit exactly when a reported
\* test has a failure field populated, the coverage is insufficient, a
\* module is uncovered or an expectation file is unused; otherwise its last
\* line is OK; the hint to re-train is printed exactly on a failure outside
\* train mode.
C27_FinalReportExit ==
  rp_final # None =>
    LET fail ==
          \/ \E i \in DOMAIN reported : reported[i].test_result \cap FailureFields # {}
          \/ /\ rp_final[1].cov /\ rp_final[1].measured
             /\ rp_final[1].percent < 100 * 10
          \/ rp_final[1].uncovered_modules # {}
          \/ rp_final[1].unused_expectation_files # {}
    IN  /\ rp_exit # None <=> fail
        /\ rp_exit # None => rp_exit[1] # 0
        /\ stdout[Len(stdout)] = [final |-> "OK"] <=> ~fail
        /\ [final |-> "FAILED"] \in Range(stdout) <=> fail
        /\ [note |-> "test train"] \in Range(stdout) <=> (fail /\ ~_is_train)

C27_Witness ==
  /\ rp_final # None
  /\ reported # <<>>
  /\ reported[1].test_result = {"check"}
  /\ ~rp_final[1].cov
  /\ rp_final[1].uncovered_modules = {}
  /\ rp_final[1].unused_expectation_files = {}
  /\ rp_exit = Some(1)
  /\ ~_is_train

\* ---- the short report ----

\* the order of the claim
SummaryOrder ==
  <<"internal_error", "bad_test", "crash_mismatch", "check", "diff", "removed",
    "written">>

\* the first field of the order that is populated, or "None"
FirstPopulated(result) ==
  IF \E i \in DOMAIN SummaryOrder : SummaryOrder[i] \in result
  THEN SummaryOrder[CHOOSE i \in DOMAIN SummaryOrder :
                      /\ SummaryOrder[i] \in result
                      /\ \A j \in 1..(i - 1) : SummaryOrder[j] \notin result]
  ELSE "None"

TestLines == SelectSeq(stdout, IsTestLine)

\* C28: the line of each reported test shows the glyph of its first
\* populated field, the success glyph when there is none; in verbose mode
\* it says FAIL when that field is one of the first five and ok otherwise.
C28_FirstPopulatedGlyph ==
  /\ Len(TestLines) = Len(reported)
  /\ \A i \in DOMAIN reported :
       LET first == FirstPopulated(reported[i].test_result)
           d == FIELD_TO_DISPLAY[first]
       IN  IF _verbose
           THEN /\ TestLines[i].line = reported[i].test_name
                /\ TestLines[i].status =
                     (IF first \in FailureFields THEN "FAIL" ELSE "ok")
           ELSE TestLines[i].icon = (IF _use_emoji THEN d.emj ELSE d.txt)

C28_Witness ==
  /\ reported # <<>>
  /\ reported[1].test_result = {"diff", "bad_test"}
  /\ ~_verbose
  /\ _use_emoji
  /\ TestLines[1].icon = "emj_stop"

\* ---- internal errors ----

\* the driver has taken an outcome with an internal_error
InternalErrorTaken ==
  \E i \in DOMAIN DrainedOutcomes : DrainedOutcomes[i].internal_error

\* C29: once the driver has taken an outcome with an internal_error it
\* takes nothing more; the tests of that outcome are not reported, no final
\* report is made, and when _run has ended every thread that was live has
\* been killed and joined.
C29_InternalErrorAborts ==
  InternalErrorTaken =>
    /\ FirstInternalError(DrainedOutcomes) = Len(DrainedOutcomes)
    /\ Drained[Len(Drained)].msg.internal_error
    /\ reported = SubSeq(DrainedOutcomes, 1, Len(DrainedOutcomes) - 1)
    /\ TestLines = SummaryLines(reported)
    /\ rp_final = None
    /\ drv_pc \in {"finally", "exited", "main_done"}
    /\ drv_exc = Some("SystemExit")
    /\ drv_pc \in {"exited", "main_done"} =>
         /\ cleaned # None
         /\ cleaned[1].killed = live_threads
         /\ \A t \in live_threads : runner[t].pc = "killed"
         /\ \A t \in all_threads : runner[t].pc \in {"killed", "done"}

C29_Witness ==
  /\ InternalErrorTaken
  /\ drv_pc = "main_done"
  /\ Cardinality(live_threads) = 2
  /\ Len(reported) = 1
  /\ outcome_queue # <<>>

\* ---- the exit code ----

\* C30: the command ends with 0 when nothing failed, with 1 when the final
\* report failed, and with 2 when the driver aborted on an outcome with an
\* internal_error.
C30_ExitCodes ==
  main_ret # None =>
    /\ (rp_final # None /\ rp_exit = None) => main_ret[1].exit_code = 0
    /\ (rp_final # None /\ rp_exit # None) => main_ret[1].exit_code = 1
    /\ InternalErrorTaken => main_ret[1].exit_code = 2

\* ---- entering a context scope ----

\* a step of the model that is `with api.context(**a)` reaching its body
EntersWith(a) ==
  ContextEnter(a.cwd, a.env_prefixes, a.env_suffixes, a.env, a.infra_steps)

\* a step of the model that is `with api.context(**a)` raising ValueError
RejectsWith(a) ==
  ContextReject(a.cwd, a.env_prefixes, a.env_suffixes, a.env, a.infra_steps)

\* the keys of an overlay argument that carry values
NonEmptyKeys(arg) ==
  IF arg = None THEN {} ELSE {k \in DOMAIN arg[1] : arg[1][k] # <<>>}

\* C31: entering a scope with env_prefixes P and env_suffixes S over the
\* visible prefixes Q and suffixes T makes P[k] \o Q[k] the visible
\* prefixes of every key k with non-empty P[k] and T[k] \o S[k] the visible
\* suffixes of every key k with non-empty S[k]; every other key keeps its
\* outer tuple.
C31_PrefixesPrependSuffixesAppend ==
  [][\A a \in ScopeArgs : EntersWith(a) =>
       LET Q == Top(_env_prefixes)
           T == Top(_env_suffixes)
           Q1 == Top(_env_prefixes')
           T1 == Top(_env_suffixes')
           PK == NonEmptyKeys(a.env_prefixes)
           SK == NonEmptyKeys(a.env_suffixes)
       IN  /\ DOMAIN Q1 = DOMAIN Q \cup PK
           /\ DOMAIN T1 = DOMAIN T \cup SK
           /\ \A k \in PK : Q1[k] = a.env_prefixes[1][k] \o Get(Q, k, <<>>)
           /\ \A k \in SK : T1[k] = Get(T, k, <<>>) \o a.env_suffixes[1][k]
           /\ \A k \in DOMAIN Q \ PK : Q1[k] = Q[k]
           /\ \A k \in DOMAIN T \ SK : T1[k] = T[k]]_vars

C31_Witness ==
  /\ Len(scopes) = 2
  /\ ctx_last.op = "enter"
  /\ Top(_env_prefixes) = Dict1("FOO", <<"shirt", "pants">>)
  /\ Top(_env_suffixes) = Dict1("FOO", <<"pants", "hat", "shirt">>)

\* v[i] is a % that starts a conversion: an even number of % precede it
StartsConversion(v, i) ==
  /\ v[i] = "%"
  /\ \E n \in 0..(i - 1) :
       /\ n % 2 = 0
       /\ \A j \in (i - n)..(i - 1) : v[j] = "%"
       /\ (i - n = 1 \/ v[i - n - 1] # "%")

\* the string holds a sequential conversion such as %s or %format
Sequential(v) ==
  \E i \in DOMAIN v :
    /\ StartsConversion(v, i)
    /\ (i = Len(v) \/ v[i + 1] \notin {"%", "("})

\* some string of the env argument holds a sequential conversion
HasSequential(a) ==
  /\ a.env # None
  /\ \E k \in DOMAIN a.env[1] : a.env[1][k] # None /\ Sequential(a.env[1][k][1])

\* C32: a scope whose env holds a value with a sequential %-format is never
\* entered: the call raises ValueError and no body starts; a scope whose env
\* values hold only %(NAME)s references or %% is never rejected.
C32_SequentialFormatRejectedAtPush ==
  [][\A a \in ScopeArgs :
       /\ HasSequential(a) => ~EntersWith(a)
       /\ ~HasSequential(a) => ~RejectsWith(a)
       /\ RejectsWith(a) =>
            /\ HasSequential(a)
            /\ ctx_exc' = "ValueError"
            /\ scopes' = scopes]_vars

C32_Witness ==
  /\ rejects = 1
  /\ ctx_last.op = "reject"
  /\ ctx_exc = "ValueError"
  /\ Len(scopes) = 1
  /\ Top(_env) = Dict1("FOO", Some(S_pct_PATH))

\* the argument is None or an empty dict
IsNoop(arg) == arg = None \/ DOMAIN arg[1] = {}

\* every argument of the call is None or an empty dict
AllNoop(a) ==
  /\ a.cwd = None
  /\ a.infra_steps = None
  /\ IsNoop(a.env_prefixes)
  /\ IsNoop(a.env_suffixes)
  /\ IsNoop(a.env)

\* C33: entering a scope with every argument None or an empty dict leaves
\* the five stacks as they are, so their depths and the accessors' values in
\* the body are those outside, and the scope has nothing to pop.
C33_EmptyScopePushesNothing ==
  [][\A a \in ScopeArgs : (AllNoop(a) /\ EntersWith(a)) =>
       /\ UNCHANGED <<_cwd, _env_prefixes, _env_suffixes, _env, _infra_step>>
       /\ Top(scopes').to_pop = <<>>]_vars

C33_Witness ==
  /\ Len(scopes) = 2
  /\ scopes[2].to_pop = <<>>
  /\ scopes[1].to_pop # <<>>
  /\ ctx_last.op = "enter"
  /\ Stacks = scopes[2].saved

\* ---- the driver and the outcome channel ----

\* C34: the driver reads the outcome channel while it posts work: when an
\* Outcome waited in the channel at the time a description was put, the
\* driver has taken something from the channel by the time _push_tests has
\* returned and the poison pills are due.
C34_DrainsWhilePushing ==
  (drv_pc = "poison" /\ put_over_unread) => Drained # <<>>

\* ---- exceptions out of _wait_proc ----

\* C35: no exception leaves _wait_proc, whatever the order of process exit,
\* timeout expiry and cancellations, a cancellation that arrives while
\* _kill waits for the process included.
C35_NoExceptionEscapes ==
  outcome # "raised"

\* ---- longest known prefix ----

\* the known path contains the target: it is the target or a directory above
Contains(known, target) ==
  target = known \/ startswith(target, known \o <<sep(FALSE)>>)

\* C36: find_longest_prefix returns the longest known path that is the
\* target or is followed in the target by the separator, and (None, None)
\* only when no known path is.
C36_LongestKnownPrefix ==
  fp_pc = "done" =>
    LET hits == {k \in Range(path_strings) : Contains(k, fp_target)}
    IN  IF hits = {} THEN fp_result = None
        ELSE /\ fp_result # None
             /\ fp_result[1] \in hits
             /\ \A k \in hits : Len(k) <= Len(fp_result[1])

\* ---- retries ----

\* base to the power of k
RECURSIVE Pow(_, _)
Pow(base, k) == IF k = 0 THEN 1 ELSE base * Pow(base, k - 1)

\* C37: the wrapped function is called at least once and at most retries
\* times; the wrapper returns what the first call that does not raise
\* returned; the sleeps are delay, 2 delay, 4 delay, ..., one between two
\* calls and none after the last; the wrapper re-raises the exception of a
\* call exactly when that was call number retries or condition(e) is false.
C37_RetriesWithDoublingDelay ==
  /\ Len(er_attempts) <= er_retries
  /\ er_pc = "done" => Len(er_attempts) >= 1
  /\ er_sleeps = [k \in 1..Len(er_sleeps) |-> er_delay * Pow(2, k - 1)]
  /\ er_pc = "call" => Len(er_sleeps) = Len(er_attempts)
  /\ er_pc = "done" => Len(er_sleeps) = Len(er_attempts) - 1
  /\ \A k \in 1..(Len(er_attempts) - 1) :
       /\ er_attempts[k].kind = "raised"
       /\ k < er_retries
       /\ er_condition = None \/ er_attempts[k].value \in er_condition[1]
  /\ er_pc = "done" =>
       /\ er_outcome = Some(Top(er_attempts))
       /\ Top(er_attempts).kind = "raised" =>
            \/ Len(er_attempts) = er_retries
            \/ /\ er_condition # None
               /\ Top(er_attempts).value \notin er_condition[1]
  /\ (er_pc = "call" /\ er_attempts # <<>>) => Top(er_attempts).kind = "raised"

\* ---- what train mode deletes ----

\* _push_tests was left by an exception from gen_tests or by the ValueError
\* of a duplicate
GenTestsRaised ==
  drv_exc # None /\ drv_exc[1] \in {"gen_tests", "ValueError"}

\* C38: no expectation file that an emitted test maps to is ever deleted,
\* whether or not a filter keeps that test from running, and when the
\* gen_tests of a processed recipe raises no file at all has been deleted.
C38_TrainKeepsEmittedFiles ==
  /\ \A p \in removed : p[2] \notin EmittedFiles(p[1])
  /\ \A r \in Recipes : EmittedFiles(r) \cap ExistingPaths(r) \subseteq expectation_paths[r]
  /\ GenTestsRaised => removed = {}

\* a test that a filter kept from running has its expectation file, while
\* another file was deleted
C38_Witness ==
  /\ is_train
  /\ test_filters # <<>>
  /\ drv_pc = "main_done"
  /\ removed = {<<"r1", "z.json">>, <<"r2", "z.json">>}
  /\ Description("r1", "b") \in EmittedTests \ Range(put_log)
  /\ "b.json" \in expectation_paths["r1"]

\* ---- leaving _run ----

\* C39: however _run is left (after the final report, by the reporter's
\* exit, by an exception out of _push_tests or by a failure of make_pool),
\* every thread still live has been killed and joined, the coverage
\* directory of the pool is removed, and the finally clause has raised
\* nothing of its own.
C39_CleanupOnEveryExit ==
  drv_pc \in {"exited", "main_done"} =>
    /\ cleaned # None
    /\ cleaned[1].killed = live_threads
    /\ \A t \in live_threads : runner[t].pc = "killed"
    /\ pool_coverage = Some(TRUE) => cleaned[1].rmtree
    /\ drv_exc # Some("UnboundLocalError")

\* ---- the two stacks of the defer context ----

\* the live scopes and calls that entered begin_aggregate or begin_normal
Entered == SelectSeq(frames, LAMBDA fr : fr.pushed)

\* what the aggregated_result stack holds when every live scope and call
\* has pushed once and everything that ended has popped
LiveAggregates ==
  <<None>> \o [i \in DOMAIN Entered |->
                 IF Entered[i].kind = "defer_results" THEN Entered[i].agg ELSE None]

\* C40: the ran_step and aggregated_result stacks have the same length, at
\* least one, and the aggregated_result stack holds exactly the entries of
\* the scopes and calls still live, so that once a defer_results scope or a
\* step-like call has ended, normally or by an exception, both stacks are
\* as long as before it began and aggregated_result has its old content.
C40_DeferStacksBalanced ==
  /\ Len(_ran_step) = Len(_aggregated_result)
  /\ Len(_ran_step) >= 1
  /\ _aggregated_result = LiveAggregates

\* the second defer_results scope of a run was left by an exception
C40_Witness ==
  /\ defer_last.op = "unwind"
  /\ defer_last.frame.kind = "defer_results"
  /\ exc.kind = "Exception"
  /\ frames = <<>>
  /\ _aggregated_result = <<None>>
  /\ _ran_step = <<TRUE>>
  /\ Len(aggs) = 2

====
